---- MODULE Spec2Model ----
(***************************************************************************)
(* Model of the supervisor orchestration graph                             *)
(* (agents/supervisor-agent/src/agent.py, client.py), of the DynamoDB     *)
(* checkpoint saver (agents/personalization-agent/src/                     *)
(* dynamodb_session_saver.py) and of the WebSocket event client            *)
(* (agents/supervisor-agent/src/websocket_event_client.py).                *)
(*                                                                         *)
(* Python None is the string "None"; confidence scores are in tenths.      *)
(* Character strings handled by the checkpoint saver are sequences of      *)
(* ASCII codes, so that concatenation, prefix tests and comparison are     *)
(* computed as Python and DynamoDB compute them.                           *)
(***************************************************************************)
EXTENDS Integers, Sequences, FiniteSets, TLC

VARIABLES
    \* ---- supervisor graph: GraphState channels (agent.py:41-73) ----
    customer_message,       \* GraphState.customer_message
    request_session_id,     \* GraphState.session_id
    customer_id,            \* GraphState.customer_id
    context,                \* GraphState.context
    can_respond_directly,   \* GraphState.can_respond_directly
    direct_response,        \* GraphState.direct_response
    selected_agents,        \* GraphState.selected_agents
    agents_to_call,         \* GraphState.agents_to_call
    agent_responses,        \* GraphState.agent_responses
    synthesized_response,   \* GraphState.synthesized_response
    confidence_score,       \* GraphState.confidence_score
    \* ---- supervisor graph: execution of one turn ----
    pc,                     \* "idle" | "running" | "done" | "raised"
    todo,                   \* nodes scheduled in the current superstep, not yet run
    nxt,                    \* nodes scheduled for the next superstep
    oracle,                 \* what the decision oracle returned in this turn
    calls,                  \* call_agent invocations of this turn, in order
    failed,                 \* agent types whose call_agent raised in this turn
    executed,               \* node executions of this turn, in order
    reply,                  \* what the caller gets when the graph run raised
    sent,                   \* the last body the sub-agent client posted in this turn
    \* ---- checkpoint saver ----
    table,                  \* the DynamoDB table: a set of items, one per key
    clock,                  \* number of checkpoints created so far (ids and timestamps)
    written,                \* the successful puts: what the caller passed in
    op,                     \* the saver call that has just returned, or NoOp
    inflight,               \* per concurrent caller of put: the put it is in
    \* ---- WebSocket event client (websocket_event_client.py:55-77) ----
    ws,                     \* self.ws: "none" | "open" | "broken"
    connected,              \* self.connected
    running,                \* self.running
    reconnect_count,        \* self.reconnect_count
    lock,                   \* the thread inside `with self.lock`, or NoThread
    wpc,                    \* per thread: where it is in the client's code
    tmp,                    \* per thread: the value loaded by reconnect_count += 1
    reconnecting,           \* per thread: it is inside _attempt_reconnect()
    closed,                 \* close() was called, and connect() not since
    failures                \* failed reconnection attempts since the last success

gvars == <<customer_message, request_session_id, customer_id, context, sent,
           can_respond_directly, direct_response, selected_agents,
           agents_to_call, agent_responses, synthesized_response,
           confidence_score, pc, todo, nxt, oracle, calls, failed, executed,
           reply>>

svars == <<table, clock, written, op, inflight>>

wvars == <<ws, connected, running, reconnect_count, lock, wpc, tmp,
           reconnecting, closed, failures>>

vars == <<gvars, svars, wvars>>

----------------------------------------------------------------------------
(* Bounds *)

\* longest specialist list the decision oracle proposes
MaxOracleLen == 4

\* number of checkpoints created
MaxCheckpoints == 2

\* largest limit passed to list
MaxLimit == 2

\* largest number of items DynamoDB returns in one page of a query
MaxPage == 2

\* number of listener threads of the WebSocket client alive at a time
MaxListeners == 2

\* largest value of the reconnection counter of the WebSocket client
MaxReconnectCount == 6

----------------------------------------------------------------------------
(* Supervisor graph *)

None == "None"

SUPERVISOR == "supervisor"
SYNTHESIZER == "synthesizer"
END == "__end__"

valid_agents ==
    {"order_management", "product_recommendation", "troubleshooting", "personalization"}

\* identifiers the oracle may name: the four specialists and one that is not one
OracleAgentNames == valid_agents \cup {"unknown_agent"}

\* texts the oracle may give as direct_response (Optional[str])
DirectTexts == {None, "", "Hello"}

\* Python truthiness of an Optional[str]
Truthy(s) == s \notin {None, ""}

SeqsUpTo(S, n) == UNION {[1..k -> S] : k \in 0..n}

RECURSIVE FilterSeq(_, _)
FilterSeq(s, S) ==
    IF s = <<>> THEN <<>>
    ELSE IF Head(s) \in S THEN <<Head(s)>> \o FilterSeq(Tail(s), S)
         ELSE FilterSeq(Tail(s), S)

\* a slice that keeps the whole list
Take_whole(s, n) == s

\* s[:n]
Take(s, n) == SubSeq(s, 1, IF Len(s) < n THEN Len(s) ELSE n)

\* s without its last x
RemoveFirst_last(s, x) ==
    LET i == CHOOSE k \in 1..Len(s) :
                 s[k] = x /\ \A m \in (k + 1)..Len(s) : s[m] # x
    IN  SubSeq(s, 1, i - 1) \o SubSeq(s, i + 1, Len(s))

\* list.remove(x) guarded by "if x in list": drops the first occurrence
RECURSIVE RemoveFirst(_, _)
RemoveFirst(s, x) ==
    IF s = <<>> THEN <<>>
    ELSE IF Head(s) = x THEN Tail(s)
         ELSE <<Head(s)>> \o RemoveFirst(Tail(s), x)

InSeq(x, s) == \E i \in 1..Len(s) : s[i] = x

\* the oracle either raises (ok = FALSE) or returns a SupervisorDecision
OracleOutputs ==
    {[ok |-> FALSE, can_respond_directly |-> FALSE, direct_response |-> None,
      selected_agents |-> <<>>]}
    \cup
    [ok : {TRUE}, can_respond_directly : BOOLEAN, direct_response : DirectTexts,
     selected_agents : SeqsUpTo(OracleAgentNames, MaxOracleLen)]

NoOracle ==
    [ok |-> FALSE, can_respond_directly |-> FALSE, direct_response |-> "unset",
     selected_agents |-> <<>>]

MaxSelectedAgents == 3

\* primary_intent values of the intent analysis; "other" is any other string
Intents == {"order", "product", "troubleshooting", "personalization", "general", "other"}

\* _select_agents of supervir_agent_graph.py: the selector's list filtered
\* and cut, or the rule-based list if the selector raised
select_agents(o, primary_intent, customer_id_mentioned) ==
    IF o.ok
    THEN LET selected == FilterSeq(o.selected_agents, valid_agents)
         IN  IF selected # <<>> THEN Take(selected, MaxSelectedAgents)
             ELSE <<"order_management">>
    ELSE LET selected ==
                CASE primary_intent = "product" -> <<"product_recommendation">>
                  [] primary_intent = "troubleshooting" -> <<"troubleshooting">>
                  [] primary_intent = "personalization" -> <<"personalization">>
                  [] OTHER -> <<"order_management">>
         IN  Take(IF customer_id_mentioned /\ ~InSeq("personalization", selected)
                  THEN <<"personalization">> \o selected ELSE selected,
                  MaxSelectedAgents)

\* a fallback decision that selects no specialist
fallback_decision_nobody ==
    [can_respond_directly |-> FALSE, direct_response |-> None,
     selected_agents |-> <<>>]

\* the SupervisorDecision built in the except branch of
\* _make_supervisor_decision
fallback_decision ==
    [can_respond_directly |-> FALSE, direct_response |-> None,
     selected_agents |-> <<"order_management">>]

\* the clean-up with the list cut to three before the unknown names are dropped
make_supervisor_decision_cut_first(o) ==
    IF ~o.ok
    THEN fallback_decision
    ELSE LET inconsistent == o.can_respond_directly /\ ~Truthy(o.direct_response)
             crd == IF inconsistent THEN FALSE ELSE o.can_respond_directly
             sel == IF inconsistent THEN <<"order_management">> ELSE o.selected_agents
         IN  [can_respond_directly |-> crd,
              direct_response |-> o.direct_response,
              selected_agents |-> FilterSeq(Take(sel, MaxSelectedAgents), valid_agents)]

\* the decision after "Validate and clean up the decision"
make_supervisor_decision(o) ==
    IF ~o.ok
    THEN fallback_decision
    ELSE LET inconsistent == o.can_respond_directly /\ ~Truthy(o.direct_response)
             crd == IF inconsistent THEN FALSE ELSE o.can_respond_directly
             sel == IF inconsistent THEN <<"order_management">> ELSE o.selected_agents
         IN  [can_respond_directly |-> crd,
              direct_response |-> o.direct_response,
              selected_agents |-> Take(FilterSeq(sel, valid_agents), MaxSelectedAgents)]

get_next_agent(atc) == IF atc # <<>> THEN Head(atc) ELSE SYNTHESIZER

\* conditional edge out of the supervisor node, evaluated on the updated state
supervisor_router(atc) == IF atc # <<>> THEN Head(atc) ELSE SYNTHESIZER

\* conditional edge out of every specialist node, evaluated on the updated state
agent_router(atc) == get_next_agent(atc)

\* Command(goto=...) returned by the supervisor node
supervisor_goto(d) ==
    IF d.can_respond_directly THEN SYNTHESIZER
    ELSE IF d.selected_agents # <<>> THEN Head(d.selected_agents)
    ELSE SYNTHESIZER

\* agent_responses: a dict; "absent" marks a key that is not in the dict
Absent == "absent"
EmptyResponses == [a \in valid_agents |-> Absent]

\* what call_agent can do: raise, or return the decoded JSON body, which is
\* either null or a document carrying the specialist's text
CallOutcomes == {"raise", None, "text"}

ApologyMsg ==
    "I apologize, but I'm having trouble accessing our systems right now. Please try again in a moment."
TroubleMsg == "I'm having trouble processing your request. Please try again."

NoAnswer == [kind |-> "unset", text |-> None, uses |-> {}, asked |-> FALSE]

\* a synthesis that asks the oracle to merge even a single response
synthesize_response_always_merging(responses, synthesis_ok) ==
    LET valid == {a \in valid_agents : responses[a] \notin {Absent, None}}
    IN  IF valid = {}
        THEN [kind |-> "canned", text |-> ApologyMsg, uses |-> {}, asked |-> FALSE]
        ELSE IF synthesis_ok
        THEN [kind |-> "synthesis", text |-> "synthesized",
              uses |-> valid, asked |-> TRUE]
        ELSE [kind |-> "canned", text |-> TroubleMsg, uses |-> {}, asked |-> TRUE]

\* the string _synthesize_response returns; uses = the specialists whose
\* response text is part of it; asked = the synthesis oracle was called
synthesize_response(responses, synthesis_ok) ==
    LET valid_responses == {a \in valid_agents : responses[a] \notin {Absent, None}}
    IN  IF valid_responses = {}
        THEN [kind |-> "canned", text |-> ApologyMsg, uses |-> {}, asked |-> FALSE]
        ELSE IF Cardinality(valid_responses) = 1
        THEN [kind |-> "single", text |-> "Based on my analysis: ",
              uses |-> valid_responses, asked |-> FALSE]
        ELSE IF synthesis_ok
        THEN [kind |-> "synthesis", text |-> "synthesized",
              uses |-> valid_responses, asked |-> TRUE]
        ELSE [kind |-> "canned", text |-> TroubleMsg, uses |-> {}, asked |-> TRUE]

DirectConfidence == 9
AgentsConfidence == 8
LowConfidence == 1

DifficultiesMsg ==
    "I'm experiencing technical difficulties and cannot process your request right now. Please try again in a few minutes or contact our support team directly."

NoReply == [type |-> "none"]

\* _handle_error: the customer_response of the error oracle, or the final
\* fallback text if that oracle raised
handle_error(error_handler_ok) ==
    [type |-> "response",
     response |-> IF error_handler_ok THEN "customer_response" ELSE DifficultiesMsg,
     agents_called |-> <<>>,
     confidence_score |-> LowConfidence,
     follow_up_needed |-> TRUE]

\* the update process_request_stream yields in its except branch
error_update == [type |-> "error", error |-> "str(e)"]

\* the requests of the callers: SupervisorRequest (shared/models.py); a
\* context is None or a dict, written as a string
Requests ==
    {[customer_message |-> "Hello", session_id |-> "s1", customer_id |-> None,
      context |-> None],
     [customer_message |-> "Where is my order?", session_id |-> "s2",
      customer_id |-> "cust001", context |-> "{'channel': 'web'}"]}

max_response_words == 100

\* the AgentRequest a specialist node builds from the graph state
AgentRequest ==
    [customer_message |-> customer_message,
     session_id |-> request_session_id,
     customer_id |-> customer_id,
     conversation_history |-> "[]",
     context |-> context,
     max_response_length |-> max_response_words]

\* _convert_to_agent_request: the JSON body posted to the specialist
convert_to_agent_request(agent_type, request) ==
    IF agent_type = "order_management"
    THEN request
    ELSE IF agent_type \in {"product_recommendation", "troubleshooting",
                            "personalization"}
    THEN [customer_id |-> request.customer_id,
          query |-> request.customer_message,
          session_id |-> request.session_id,
          context |-> request.context]
    ELSE request

\* no body has been posted in this turn
NothingSent == [customer_id |-> None]

\* a graph whose nodes schedule nothing after them
Schedule_nothing(node, targets) ==
    LET rest == todo \ {node}
    IN  /\ executed' = Append(executed, node)
        /\ IF rest # {}
           THEN todo' = rest /\ nxt' = nxt /\ pc' = pc
           ELSE /\ todo' = nxt
                /\ nxt' = {}
                /\ pc' = IF nxt = {} THEN "done" ELSE pc

\* A node has run: it leaves the current superstep and its targets (the goto
\* of its Command and the result of its conditional edge) join the next one.
\* When the superstep is complete the next one starts; the turn is over when
\* nothing is scheduled.
Schedule(node, targets) ==
    LET rest == todo \ {node}
        newnxt == nxt \cup (targets \ {END})
    IN  /\ executed' = Append(executed, node)
        /\ IF rest # {}
           THEN todo' = rest /\ nxt' = newnxt /\ pc' = pc
           ELSE /\ todo' = newnxt
                /\ nxt' = {}
                /\ pc' = IF newnxt = {} THEN "done" ELSE pc

\* a request out of a set of requests arrives on a thread and the graph
\* starts at its entry point; the other channels keep what the thread's
\* checkpoint holds
process_request_of(requests) ==
    /\ pc = "idle"
    /\ \E request \in requests :
          /\ customer_message' = request.customer_message
          /\ request_session_id' = request.session_id
          /\ customer_id' = request.customer_id
          /\ context' = request.context
    /\ sent' = NothingSent
    /\ pc' = "running"
    /\ todo' = {SUPERVISOR}
    /\ nxt' = {}
    /\ oracle' = NoOracle
    /\ calls' = <<>>
    /\ failed' = {}
    /\ executed' = <<>>
    /\ reply' = NoReply
    /\ UNCHANGED <<can_respond_directly, direct_response, selected_agents,
                   agents_to_call, agent_responses, synthesized_response,
                   confidence_score>>

\* process_request on a new thread
process_request == process_request_of(Requests)

FollowUpThreshold == 7

\* format_agent_response: the entry of the result built from one stored
\* response
format_agent_response(agent_type, response_data) ==
    [response |-> response_data, agent_type |-> agent_type,
     session_id |-> request_session_id, requires_followup |-> FALSE]

\* the response_data process_request returns after the graph has run to its
\* end; agent_responses is a list with one entry per key of the dict in the
\* dict's order, written here as the set of its entries
response_data ==
    [response |-> synthesized_response.text,
     agents_called |-> selected_agents,
     agent_responses |->
         {format_agent_response(a, agent_responses[a]) :
              a \in {b \in valid_agents : agent_responses[b] \notin {Absent, None}}},
     confidence_score |-> confidence_score,
     session_id |-> request_session_id,
     follow_up_needed |-> confidence_score < FollowUpThreshold]

\* graph.astream raises before any node has run (the checkpointer failed on
\* the thread's checkpoint): process_request answers through _handle_error,
\* process_request_stream yields its error update. The nodes run the same
\* under both entry points, so the entry point is only told apart here.
astream_raises ==
    /\ pc = "running"
    /\ executed = <<>>
    /\ \E entry \in {"process_request", "process_request_stream"},
          error_handler_ok \in BOOLEAN :
          reply' = IF entry = "process_request"
                   THEN handle_error(error_handler_ok)
                   ELSE error_update
    /\ pc' = "raised"
    /\ todo' = {}
    /\ UNCHANGED <<customer_message, request_session_id, context, customer_id, sent,
                   can_respond_directly, direct_response,
                   selected_agents, agents_to_call, agent_responses,
                   synthesized_response, confidence_score, nxt, oracle, calls,
                   failed, executed>>

\* a supervisor node that leaves agent_responses as it found it
supervisor_agent_responses_kept(old) == old

\* "agent_responses": {} in the update of the supervisor node
supervisor_agent_responses(old) == EmptyResponses

\* _supervisor_node, the decision oracle answering with one of outputs
supervisor_node_of(outputs) ==
    /\ pc = "running"
    /\ SUPERVISOR \in todo
    /\ \E o \in outputs :
        LET d == make_supervisor_decision(o)
        IN  /\ oracle' = o
            /\ can_respond_directly' = d.can_respond_directly
            /\ direct_response' = d.direct_response
            /\ selected_agents' = d.selected_agents
            /\ agents_to_call' = d.selected_agents
            /\ agent_responses' = supervisor_agent_responses(agent_responses)
            /\ Schedule(SUPERVISOR,
                        {supervisor_goto(d), supervisor_router(d.selected_agents)})
    /\ UNCHANGED <<customer_message, request_session_id, context, customer_id, sent,
                   synthesized_response, confidence_score, calls, failed, reply>>

supervisor_node == supervisor_node_of(OracleOutputs)

\* the except branch leaving agents_to_call as it found it
failure_agents_to_call_kept(atc, agent_type) == atc

\* agents_to_call after the except branch of a specialist node
failure_agents_to_call(atc, agent_type) ==
    IF InSeq(agent_type, atc) THEN RemoveFirst(atc, agent_type) ELSE atc

\* the success branch dropping the last entry of agents_to_call
success_agents_to_call_drops_last(atc, agent_type) ==
    IF atc # <<>> THEN SubSeq(atc, 1, Len(atc) - 1) ELSE atc

\* agents_to_call after the success branch of a specialist node
success_agents_to_call(atc, agent_type) ==
    IF InSeq(agent_type, atc) THEN RemoveFirst(atc, agent_type) ELSE atc

\* a specialist node that also writes the answer of the turn
generic_agent_node_answering(agent_type) ==
    /\ pc = "running"
    /\ agent_type \in todo
    /\ calls' = Append(calls, agent_type)
    /\ \E outcome \in CallOutcomes :
        IF outcome # "raise"
        THEN LET atc == success_agents_to_call(agents_to_call, agent_type)
             IN  /\ agent_responses' = [agent_responses EXCEPT ![agent_type] = outcome]
                 /\ agents_to_call' = atc
                 /\ failed' = failed
                 /\ Schedule(agent_type, {get_next_agent(atc), agent_router(atc)})
        ELSE LET atc == failure_agents_to_call(agents_to_call, agent_type)
             IN  /\ agent_responses' = agent_responses
                 /\ agents_to_call' = atc
                 /\ failed' = failed \cup {agent_type}
                 /\ Schedule(agent_type, {get_next_agent(atc), agent_router(atc)})
    /\ sent' = convert_to_agent_request(agent_type, AgentRequest)
    /\ synthesized_response' =
           [kind |-> "single", text |-> "Based on my analysis: ",
            uses |-> {agent_type}, asked |-> FALSE]
    /\ UNCHANGED <<customer_message, request_session_id, context, customer_id,
                   can_respond_directly, direct_response, selected_agents,
                   confidence_score, oracle, reply>>

\* _generic_agent_node: one call of a specialist, and the routing after it
generic_agent_node(agent_type) ==
    /\ pc = "running"
    /\ agent_type \in todo
    /\ calls' = Append(calls, agent_type)
    /\ \E outcome \in CallOutcomes :
        IF outcome # "raise"
        THEN LET atc == success_agents_to_call(agents_to_call, agent_type)
             IN  /\ agent_responses' = [agent_responses EXCEPT ![agent_type] = outcome]
                 /\ agents_to_call' = atc
                 /\ failed' = failed
                 /\ Schedule(agent_type, {get_next_agent(atc), agent_router(atc)})
        ELSE LET atc == failure_agents_to_call(agents_to_call, agent_type)
             IN  /\ agent_responses' = agent_responses
                 /\ agents_to_call' = atc
                 /\ failed' = failed \cup {agent_type}
                 /\ Schedule(agent_type, {get_next_agent(atc), agent_router(atc)})
    /\ sent' = convert_to_agent_request(agent_type, AgentRequest)
    /\ UNCHANGED <<customer_message, request_session_id, context, customer_id,
                   can_respond_directly, direct_response, selected_agents,
                   synthesized_response, confidence_score, oracle, reply>>

synthesizer_node ==
    /\ pc = "running"
    /\ SYNTHESIZER \in todo
    /\ IF can_respond_directly = TRUE /\ Truthy(direct_response)
       THEN /\ synthesized_response' =
                   [kind |-> "direct", text |-> direct_response, uses |-> {},
                    asked |-> FALSE]
            /\ confidence_score' = DirectConfidence
       ELSE \E synthesis_ok \in BOOLEAN :
            /\ synthesized_response' = synthesize_response(agent_responses, synthesis_ok)
            /\ confidence_score' =
                   IF agent_responses # EmptyResponses THEN AgentsConfidence
                   ELSE LowConfidence
    /\ Schedule(SYNTHESIZER, {END})
    /\ UNCHANGED <<customer_message, request_session_id, context, customer_id, sent,
                   can_respond_directly, direct_response, selected_agents,
                   agents_to_call, agent_responses, oracle, calls, failed, reply>>

GraphInit ==
    /\ customer_message = None
    /\ request_session_id = None
    /\ customer_id = None
    /\ context = None
    /\ sent = NothingSent
    /\ can_respond_directly = None
    /\ direct_response = None
    /\ selected_agents = <<>>
    /\ agents_to_call = <<>>
    /\ agent_responses = EmptyResponses
    /\ synthesized_response = NoAnswer
    /\ confidence_score = None
    /\ pc = "idle"
    /\ todo = {}
    /\ nxt = {}
    /\ oracle = NoOracle
    /\ calls = <<>>
    /\ failed = {}
    /\ executed = <<>>
    /\ reply = NoReply

----------------------------------------------------------------------------
(* Character strings and Python values of the checkpoint saver *)

\* ASCII codes
HASH == 35

\* lexicographic comparison of two strings, as Python's  s < t  and DynamoDB's
\* sort-key order
RECURSIVE StrLess(_, _)
StrLess(s, t) ==
    IF t = <<>> THEN FALSE
    ELSE IF s = <<>> THEN TRUE
    ELSE IF Head(s) # Head(t) THEN Head(s) < Head(t)
    ELSE StrLess(Tail(s), Tail(t))

StrLeq(s, t) == s = t \/ StrLess(s, t)

\* str.startswith / DynamoDB begins_with
BeginsWith(s, prefix) ==
    Len(prefix) <= Len(s) /\ SubSeq(s, 1, Len(prefix)) = prefix

\* Python values, tagged by type
PyNone == [t |-> "none"]
PyInt(n) == [t |-> "int", n |-> n]
PyStr(s) == [t |-> "str", s |-> s]
PyList(xs) == [t |-> "list", items |-> xs]
PyTuple(xs) == [t |-> "tuple", items |-> xs]
\* a dict is the sequence of its <<key, value>> pairs in insertion order
PyDict(kvs) == [t |-> "dict", pairs |-> kvs]

RECURSIVE Concat(_)
Concat(ss) == IF ss = <<>> THEN <<>> ELSE Head(ss) \o Concat(Tail(ss))

\* ---- pickle: opcode stream of pickle.dumps (protocol 2 opcodes) ----
OP_PROTO == 128
OP_STOP == 46
OP_NONE == 78
OP_BININT1 == 75
OP_BINUNICODE == 88
OP_EMPTY_LIST == 93
OP_APPENDS == 101
OP_MARK == 40
OP_TUPLE == 116
OP_EMPTY_TUPLE == 41
OP_EMPTY_DICT == 125
OP_SETITEMS == 117

RECURSIVE pickle_save(_)
pickle_save(obj) ==
    CASE obj.t = "none" -> <<OP_NONE>>
      [] obj.t = "int" -> <<OP_BININT1, obj.n>>
      [] obj.t = "str" ->
            <<OP_BINUNICODE, Len(obj.s) % 256, Len(obj.s) \div 256, 0, 0>> \o obj.s
      [] obj.t = "list" ->
            IF obj.items = <<>> THEN <<OP_EMPTY_LIST>>
            ELSE <<OP_EMPTY_LIST, OP_MARK>>
                 \o Concat([i \in 1..Len(obj.items) |-> pickle_save(obj.items[i])])
                 \o <<OP_APPENDS>>
      [] obj.t = "tuple" ->
            IF obj.items = <<>> THEN <<OP_EMPTY_TUPLE>>
            ELSE <<OP_MARK>>
                 \o Concat([i \in 1..Len(obj.items) |-> pickle_save(obj.items[i])])
                 \o <<OP_TUPLE>>
      [] obj.t = "dict" ->
            IF obj.pairs = <<>> THEN <<OP_EMPTY_DICT>>
            ELSE <<OP_EMPTY_DICT, OP_MARK>>
                 \o Concat([i \in 1..Len(obj.pairs) |->
                              pickle_save(obj.pairs[i][1]) \o pickle_save(obj.pairs[i][2])])
                 \o <<OP_SETITEMS>>

pickle_dumps(obj) == <<OP_PROTO, 2>> \o pickle_save(obj) \o <<OP_STOP>>

PickleMark == [t |-> "mark"]

\* index of the topmost MARK on the unpickler's stack
LastMark(stack) ==
    CHOOSE i \in 1..Len(stack) :
        /\ stack[i] = PickleMark
        /\ \A j \in (i + 1)..Len(stack) : stack[j] # PickleMark

\* <<k1, v1, k2, v2, ...>> as <<<<k1, v1>>, <<k2, v2>>, ...>>
Pairs(xs) == [i \in 1..(Len(xs) \div 2) |-> <<xs[2 * i - 1], xs[2 * i]>>]

\* the unpickler: a stack machine over the opcode stream
RECURSIVE pickle_run(_, _, _)
pickle_run(data, i, stack) ==
    LET opcode == data[i]
        m == LastMark(stack)
        above == SubSeq(stack, m + 1, Len(stack))
        below == SubSeq(stack, 1, m - 2)
        target == stack[m - 1]
    IN  CASE opcode = OP_STOP -> stack[Len(stack)]
          [] opcode = OP_PROTO -> pickle_run(data, i + 2, stack)
          [] opcode = OP_NONE -> pickle_run(data, i + 1, Append(stack, PyNone))
          [] opcode = OP_BININT1 -> pickle_run(data, i + 2, Append(stack, PyInt(data[i + 1])))
          [] opcode = OP_BINUNICODE ->
                LET n == data[i + 1] + 256 * data[i + 2]
                IN  pickle_run(data, i + 5 + n,
                               Append(stack, PyStr(SubSeq(data, i + 5, i + 4 + n))))
          [] opcode = OP_EMPTY_LIST -> pickle_run(data, i + 1, Append(stack, PyList(<<>>)))
          [] opcode = OP_EMPTY_TUPLE -> pickle_run(data, i + 1, Append(stack, PyTuple(<<>>)))
          [] opcode = OP_EMPTY_DICT -> pickle_run(data, i + 1, Append(stack, PyDict(<<>>)))
          [] opcode = OP_MARK -> pickle_run(data, i + 1, Append(stack, PickleMark))
          [] opcode = OP_APPENDS ->
                pickle_run(data, i + 1, Append(below, PyList(target.items \o above)))
          [] opcode = OP_TUPLE ->
                pickle_run(data, i + 1, Append(SubSeq(stack, 1, m - 1), PyTuple(above)))
          [] opcode = OP_SETITEMS ->
                pickle_run(data, i + 1, Append(below, PyDict(target.pairs \o Pairs(above))))

pickle_loads(data) == pickle_run(data, 1, <<>>)

\* ---- base64 ----
\* the character of a 6-bit value in the base64 alphabet
B64Char(v) ==
    IF v < 26 THEN 65 + v
    ELSE IF v < 52 THEN 97 + (v - 26)
    ELSE IF v < 62 THEN 48 + (v - 52)
    ELSE IF v = 62 THEN 43 ELSE 47

B64Val(c) ==
    IF c >= 65 /\ c <= 90 THEN c - 65
    ELSE IF c >= 97 /\ c <= 122 THEN c - 97 + 26
    ELSE IF c >= 48 /\ c <= 57 THEN c - 48 + 52
    ELSE IF c = 43 THEN 62 ELSE 63

B64Pad == 61

RECURSIVE b64encode(_)
b64encode(bytes) ==
    IF bytes = <<>> THEN <<>>
    ELSE IF Len(bytes) = 1 THEN
        <<B64Char(bytes[1] \div 4), B64Char((bytes[1] % 4) * 16), B64Pad, B64Pad>>
    ELSE IF Len(bytes) = 2 THEN
        <<B64Char(bytes[1] \div 4),
          B64Char((bytes[1] % 4) * 16 + bytes[2] \div 16),
          B64Char((bytes[2] % 16) * 4), B64Pad>>
    ELSE
        <<B64Char(bytes[1] \div 4),
          B64Char((bytes[1] % 4) * 16 + bytes[2] \div 16),
          B64Char((bytes[2] % 16) * 4 + bytes[3] \div 64),
          B64Char(bytes[3] % 64)>> \o b64encode(SubSeq(bytes, 4, Len(bytes)))

RECURSIVE b64decode(_)
b64decode(chars) ==
    IF chars = <<>> THEN <<>>
    ELSE LET a == B64Val(chars[1])
             b == B64Val(chars[2])
             c == B64Val(chars[3])
             d == B64Val(chars[4])
             rest == SubSeq(chars, 5, Len(chars))
         IN  IF chars[3] = B64Pad THEN <<a * 4 + b \div 16>>
             ELSE IF chars[4] = B64Pad
             THEN <<a * 4 + b \div 16, (b % 16) * 16 + c \div 4>>
             ELSE <<a * 4 + b \div 16, (b % 16) * 16 + c \div 4, (c % 4) * 64 + d>>
                  \o b64decode(rest)

\* Base64Serializer
Base64Serializer_dumps(obj) == b64encode(pickle_dumps(obj))
Base64Serializer_loads(data) == pickle_loads(b64decode(data))

\* ---- json ----
\* str(n) for a small non-negative int
IntToStr(n) == IF n < 10 THEN <<48 + n>> ELSE <<48 + (n \div 10), 48 + (n % 10)>>

\* a dict key as json.dumps writes it: str keys as they are, int keys as
\* their decimal digits, None as "null"
json_key(k) ==
    CASE k.t = "str" -> k.s
      [] k.t = "int" -> IntToStr(k.n)
      [] k.t = "none" -> <<110, 117, 108, 108>>

\* json.dumps: the JSON document of a Python value
RECURSIVE json_dumps(_)
json_dumps(obj) ==
    CASE obj.t = "none" -> [j |-> "null"]
      [] obj.t = "int" -> [j |-> "number", n |-> obj.n]
      [] obj.t = "str" -> [j |-> "string", s |-> obj.s]
      [] obj.t \in {"list", "tuple"} ->
            [j |-> "array", items |-> [i \in 1..Len(obj.items) |-> json_dumps(obj.items[i])]]
      [] obj.t = "dict" ->
            [j |-> "object",
             members |-> [i \in 1..Len(obj.pairs) |->
                            <<json_key(obj.pairs[i][1]), json_dumps(obj.pairs[i][2])>>]]

\* json.loads: the Python value of a JSON document
RECURSIVE json_loads(_)
json_loads(doc) ==
    CASE doc.j = "null" -> PyNone
      [] doc.j = "number" -> PyInt(doc.n)
      [] doc.j = "string" -> PyStr(doc.s)
      [] doc.j = "array" ->
            PyList([i \in 1..Len(doc.items) |-> json_loads(doc.items[i])])
      [] doc.j = "object" ->
            PyDict([i \in 1..Len(doc.members) |->
                      <<PyStr(doc.members[i][1]), json_loads(doc.members[i][2])>>])

\* dict.get(key): the value of the last pair with that key, None if there is none
DictGet(d, key) ==
    LET idx == {i \in 1..Len(d.pairs) : d.pairs[i][1] = key}
    IN  IF idx = {} THEN PyNone
        ELSE d.pairs[CHOOSE i \in idx : \A k \in idx : k <= i][2]

----------------------------------------------------------------------------
(* DynamoDBSaver *)

\* None or "" where a checkpoint id is expected (both are falsy)
NoneId == <<>>

Threads == {"t1", "t2"}

\* checkpoint_ns values: "a" and "a#!"
Namespaces == {<<97>>, <<97, HASH, 33>>}

\* checkpoint ids are created by the caller in increasing order: "1", "2", ...
CheckpointId(k) == <<48 + k>>

\* what a caller puts: channel_values, channel_versions, versions_seen, metadata
\*   {"r": {"om": (1, ["ok"], None)}, "s": ["om"]}
\*   {"s": 2}   {"a": {"s": 1}}
\*   {"source": "loop", "step": 1, "writes": {"a": {"s": ["om"]}}}
LoopSample ==
    [channel_values |->
        PyDict(<< <<PyStr(<<114>>),
                    PyDict(<< <<PyStr(<<111, 109>>),
                                PyTuple(<<PyInt(1), PyList(<<PyStr(<<111, 107>>)>>), PyNone>>)>> >>)>>,
                  <<PyStr(<<115>>), PyList(<<PyStr(<<111, 109>>)>>)>> >>),
     channel_versions |-> PyDict(<< <<PyStr(<<115>>), PyInt(2)>> >>),
     versions_seen |-> PyDict(<< <<PyStr(<<97>>), PyDict(<< <<PyStr(<<115>>), PyInt(1)>> >>)>> >>),
     metadata |->
        PyDict(<< <<PyStr(<<115, 114, 99>>), PyStr(<<108>>)>>,
                  <<PyStr(<<115, 116>>), PyInt(1)>>,
                  <<PyStr(<<119>>),
                    PyDict(<< <<PyStr(<<97>>),
                                PyDict(<< <<PyStr(<<115>>), PyList(<<PyStr(<<111, 109>>)>>)>> >>)>> >>)>> >>)]

\*   {"m": "hi"}   {"i": 1}   {}
\*   {"source": "input", "step": 0, "writes": None}
InputSample ==
    [channel_values |-> PyDict(<< <<PyStr(<<109>>), PyStr(<<104, 105>>)>> >>),
     channel_versions |-> PyDict(<< <<PyStr(<<105>>), PyInt(1)>> >>),
     versions_seen |-> PyDict(<<>>),
     metadata |->
        PyDict(<< <<PyStr(<<115, 114, 99>>), PyStr(<<105>>)>>,
                  <<PyStr(<<115, 116>>), PyInt(0)>>,
                  <<PyStr(<<119>>), PyNone>> >>)]

Samples == {InputSample, LoopSample}

\* metadata filters passed to list: none, {"source": "loop"}, {"step": 0}
Filters ==
    {<<>>,
     << <<PyStr(<<115, 114, 99>>), PyStr(<<108>>)>> >>,
     << <<PyStr(<<115, 116>>), PyInt(0)>> >>}

CheckpointVersion == 1

serialize_checkpoint(checkpoint) ==
    [v |-> checkpoint.v,
     id |-> checkpoint.id,
     ts |-> checkpoint.ts,
     channel_values |-> Base64Serializer_dumps(checkpoint.channel_values),
     channel_versions |-> json_dumps(checkpoint.channel_versions),
     versions_seen |-> json_dumps(checkpoint.versions_seen)]

\* deserialize_checkpoint with channel_versions read from the wrong attribute
deserialize_checkpoint_swapped(item) ==
    [v |-> item.v,
     id |-> item.id,
     ts |-> item.ts,
     channel_values |-> Base64Serializer_loads(item.channel_values),
     channel_versions |-> json_loads(item.versions_seen),
     versions_seen |-> json_loads(item.versions_seen)]

deserialize_checkpoint(item) ==
    [v |-> item.v,
     id |-> item.id,
     ts |-> item.ts,
     channel_values |-> Base64Serializer_loads(item.channel_values),
     channel_versions |-> json_loads(item.channel_versions),
     versions_seen |-> json_loads(item.versions_seen)]

\* _create_key with a sort key that leaves the namespace out
create_key_without_ns(thread_id, checkpoint_ns, checkpoint_id) ==
    [thread_id |-> thread_id, checkpoint_id |-> checkpoint_id]

create_key(thread_id, checkpoint_ns, checkpoint_id) ==
    [thread_id |-> thread_id,
     checkpoint_id |-> checkpoint_ns \o <<HASH>> \o checkpoint_id]

ItemKey(item) == [thread_id |-> item.thread_id, checkpoint_id |-> item.checkpoint_id]

\* an attribute of the item as a Python value: v is an int, a missing parent
\* is None, every other attribute is a str
AttrToPy(name, value) ==
    IF name = "v" THEN PyInt(value)
    ELSE IF name = "parent_checkpoint_id" /\ value = NoneId THEN PyNone
    ELSE PyStr(value)

PyToAttr(py) ==
    CASE py.t = "int" -> py.n
      [] py.t = "none" -> NoneId
      [] py.t = "str" -> py.s

\* "Convert to JSON and back": json.loads(json.dumps(item), parse_float=Decimal);
\* no attribute of the item is a float
item_json_roundtrip(item) ==
    [name \in DOMAIN item |-> PyToAttr(json_loads(json_dumps(AttrToPy(name, item[name]))))]

\* the item put() hands to put_item
put_item_of(thread_id, checkpoint_ns, parent_id, checkpoint, metadata, now) ==
    LET key == create_key(thread_id, checkpoint_ns, checkpoint.id)
        ser == serialize_checkpoint(checkpoint)
    IN  item_json_roundtrip(
        [thread_id |-> key.thread_id,
         checkpoint_id |-> key.checkpoint_id,
         v |-> ser.v,
         id |-> ser.id,
         ts |-> ser.ts,
         channel_values |-> ser.channel_values,
         channel_versions |-> ser.channel_versions,
         versions_seen |-> ser.versions_seen,
         metadata |-> json_dumps(metadata),
         parent_checkpoint_id |-> parent_id,
         created_at |-> now])

\* a put_item that leaves an existing item of the key in place
put_item_if_absent(tbl, item) ==
    IF \E i \in tbl : ItemKey(i) = ItemKey(item) THEN tbl ELSE tbl \cup {item}

\* DynamoDB put_item: the item replaces the one with the same key, if any
put_item(tbl, item) == {i \in tbl : ItemKey(i) # ItemKey(item)} \cup {item}

\* DynamoDB get_item: <<item>> or <<>>
get_item(tbl, key) ==
    IF \E i \in tbl : ItemKey(i) = key
    THEN <<CHOOSE i \in tbl : ItemKey(i) = key>>
    ELSE <<>>

\* the items of a set in descending sort-key order (ScanIndexForward = False)
RECURSIVE SortDescending(_)
SortDescending(items) ==
    IF items = {} THEN <<>>
    ELSE LET top == CHOOSE i \in items :
                        \A k \in items : StrLeq(k.checkpoint_id, i.checkpoint_id)
         IN  <<top>> \o SortDescending(items \ {top})

Min(a, b) == IF a < b THEN a ELSE b

\* DynamoDB query on thread_id = t and begins_with(checkpoint_id, prefix),
\* newest first, after start (NoneId: from the top), evaluating at most limit
\* items (0: no Limit) and at most page items (the size of a result page).
\* LastEvaluatedKey is set when the query stopped at Limit or at the page size.
query(tbl, thread_id, prefix, start, limit, page) ==
    LET matching ==
            SortDescending({i \in tbl :
                /\ i.thread_id = thread_id
                /\ BeginsWith(i.checkpoint_id, prefix)
                /\ start = NoneId \/ StrLess(i.checkpoint_id, start)})
        cap == IF limit > 0 THEN Min(limit, page) ELSE page
        n == Min(cap, Len(matching))
    IN  [Items |-> SubSeq(matching, 1, n),
         LastEvaluatedKey |-> IF n > 0 /\ n = cap THEN matching[n].checkpoint_id ELSE NoneId]

\* the loop "Continue querying if there are more items and we haven't
\* reached the limit"
RECURSIVE list_continue(_, _, _, _, _, _, _)
list_continue(tbl, thread_id, prefix, limit, page, items, last_key) ==
    IF last_key # NoneId /\ (limit = 0 \/ Len(items) < limit)
    THEN LET response == query(tbl, thread_id, prefix, last_key,
                               IF limit > 0 THEN limit - Len(items) ELSE 0, page)
         IN  list_continue(tbl, thread_id, prefix, limit, page,
                           items \o response.Items, response.LastEvaluatedKey)
    ELSE items

\* the items list() processes
list_items(tbl, thread_id, checkpoint_ns, limit, page) ==
    LET prefix == checkpoint_ns \o <<HASH>>
        response == query(tbl, thread_id, prefix, NoneId, limit, page)
    IN  list_continue(tbl, thread_id, prefix, limit, page,
                      response.Items, response.LastEvaluatedKey)

\* all(metadata.get(k) == v for k, v in filter.items())
MatchesFilter(metadata, filter) ==
    \A i \in 1..Len(filter) : DictGet(metadata, filter[i][1]) = filter[i][2]

\* the "before" test of list(): TRUE when the item is skipped
SkippedByBefore(item, checkpoint_ns, before_id) ==
    /\ before_id # NoneId
    /\ StrLeq(checkpoint_ns \o <<HASH>> \o before_id, item.checkpoint_id)

\* the CheckpointTuple built from an item
CheckpointTuple(config_id, item) ==
    [config_id |-> config_id,
     checkpoint |-> deserialize_checkpoint(item),
     metadata |-> json_loads(item.metadata),
     parent_id |-> item.parent_checkpoint_id]

RECURSIVE list_process(_, _, _, _)
list_process(items, checkpoint_ns, filter, before_id) ==
    IF items = <<>> THEN <<>>
    ELSE LET item == Head(items)
             rest == list_process(Tail(items), checkpoint_ns, filter, before_id)
             metadata == json_loads(item.metadata)
         IN  IF filter # <<>> /\ ~MatchesFilter(metadata, filter) THEN rest
             ELSE IF SkippedByBefore(item, checkpoint_ns, before_id) THEN rest
             ELSE <<CheckpointTuple(deserialize_checkpoint(item).id, item)>> \o rest

\* list(config, filter=, before=, limit=): the sequence of tuples it yields
list(tbl, thread_id, checkpoint_ns, filter, before_id, limit, page) ==
    list_process(list_items(tbl, thread_id, checkpoint_ns, limit, page),
                 checkpoint_ns, filter, before_id)

\* get_tuple(config): <<tuple>>, or <<>> for None
get_tuple(tbl, thread_id, checkpoint_ns, checkpoint_id, page) ==
    IF checkpoint_id # NoneId
    THEN LET found == get_item(tbl, create_key(thread_id, checkpoint_ns, checkpoint_id))
         IN  IF found # <<>> THEN <<CheckpointTuple(checkpoint_id, found[1])>> ELSE <<>>
    ELSE LET checkpoints == list(tbl, thread_id, checkpoint_ns, <<>>, NoneId, 1, page)
         IN  IF checkpoints # <<>> THEN <<checkpoints[1]>> ELSE <<>>

\* ---- the asynchronous methods (dynamodb_session_saver.py:378-594) ----
\* async_available is ASYNC_AVAILABLE: whether aioboto3 could be imported.
\* The table reached through _get_async_table() is the table of the
\* synchronous methods.

\* the item aput() hands to put_item
aput_item_of(async_available, thread_id, checkpoint_ns, parent_id, checkpoint, metadata, now) ==
    IF ~async_available
    THEN put_item_of(thread_id, checkpoint_ns, parent_id, checkpoint, metadata, now)
    ELSE LET key == create_key(thread_id, checkpoint_ns, checkpoint.id)
             ser == serialize_checkpoint(checkpoint)
         IN  item_json_roundtrip(
             [thread_id |-> key.thread_id,
              checkpoint_id |-> key.checkpoint_id,
              v |-> ser.v,
              id |-> ser.id,
              ts |-> ser.ts,
              channel_values |-> ser.channel_values,
              channel_versions |-> ser.channel_versions,
              versions_seen |-> ser.versions_seen,
              metadata |-> json_dumps(metadata),
              parent_checkpoint_id |-> parent_id,
              created_at |-> now])

\* the config put() returns
put_config(thread_id, checkpoint_ns, checkpoint) ==
    [thread_id |-> thread_id, checkpoint_ns |-> checkpoint_ns,
     checkpoint_id |-> checkpoint.id]

\* the config aput() returns
aput_config(async_available, thread_id, checkpoint_ns, checkpoint) ==
    IF ~async_available
    THEN put_config(thread_id, checkpoint_ns, checkpoint)
    ELSE [thread_id |-> thread_id, checkpoint_ns |-> checkpoint_ns,
          checkpoint_id |-> checkpoint.id]

\* the loop of alist() that continues the query
RECURSIVE alist_continue(_, _, _, _, _, _, _)
alist_continue(tbl, thread_id, prefix, limit, page, items, last_key) ==
    IF last_key # NoneId /\ (limit = 0 \/ Len(items) < limit)
    THEN LET response == query(tbl, thread_id, prefix, last_key,
                               IF limit > 0 THEN limit - Len(items) ELSE 0, page)
         IN  alist_continue(tbl, thread_id, prefix, limit, page,
                            items \o response.Items, response.LastEvaluatedKey)
    ELSE items

\* an alist() that stops after the first page of the query
alist_items_first_page(tbl, thread_id, checkpoint_ns, limit, page) ==
    query(tbl, thread_id, checkpoint_ns \o <<HASH>>, NoneId, limit, page).Items

\* the items alist() processes
alist_items(tbl, thread_id, checkpoint_ns, limit, page) ==
    LET prefix == checkpoint_ns \o <<HASH>>
        response == query(tbl, thread_id, prefix, NoneId, limit, page)
    IN  alist_continue(tbl, thread_id, prefix, limit, page,
                       response.Items, response.LastEvaluatedKey)

\* the loop "Process items" of alist()
RECURSIVE alist_process(_, _, _, _)
alist_process(items, checkpoint_ns, filter, before_id) ==
    IF items = <<>> THEN <<>>
    ELSE LET item == Head(items)
             rest == alist_process(Tail(items), checkpoint_ns, filter, before_id)
             metadata == json_loads(item.metadata)
         IN  IF filter # <<>> /\ ~MatchesFilter(metadata, filter) THEN rest
             ELSE IF SkippedByBefore(item, checkpoint_ns, before_id) THEN rest
             ELSE <<CheckpointTuple(deserialize_checkpoint(item).id, item)>> \o rest

\* alist(config, filter=, before=, limit=): the sequence of tuples it yields
alist(async_available, tbl, thread_id, checkpoint_ns, filter, before_id, limit, page) ==
    IF ~async_available
    THEN list(tbl, thread_id, checkpoint_ns, filter, before_id, limit, page)
    ELSE alist_process(alist_items(tbl, thread_id, checkpoint_ns, limit, page),
                       checkpoint_ns, filter, before_id)

\* aget_tuple(config): <<tuple>>, or <<>> for None
aget_tuple(async_available, tbl, thread_id, checkpoint_ns, checkpoint_id, page) ==
    IF ~async_available
    THEN get_tuple(tbl, thread_id, checkpoint_ns, checkpoint_id, page)
    ELSE IF checkpoint_id # NoneId
    THEN LET found == get_item(tbl, create_key(thread_id, checkpoint_ns, checkpoint_id))
         IN  IF found # <<>> THEN <<CheckpointTuple(checkpoint_id, found[1])>> ELSE <<>>
    ELSE LET checkpoints == alist(async_available, tbl, thread_id, checkpoint_ns,
                                  <<>>, NoneId, 1, page)
         IN  IF checkpoints # <<>> THEN <<checkpoints[1]>> ELSE <<>>

NoOp ==
    [name |-> "none", thread_id |-> "", checkpoint_ns |-> <<>>, checkpoint_id |-> NoneId,
     filter |-> <<>>, before_id |-> NoneId, limit |-> 0, status |-> "ok", result |-> <<>>,
     fault |-> FALSE, page |-> 0, async_available |-> FALSE]

\* the checkpoint ids written so far for a thread and namespace
WrittenIds(thread_id, checkpoint_ns) ==
    {w.id : w \in {x \in written : x.thread_id = thread_id /\ x.checkpoint_ns = checkpoint_ns}}

\* the checkpoint_id of the config a caller passes to put: the one of the
\* tuple get_tuple(config) returned when the run started, the one the previous
\* put of the run returned, or none on a thread without a checkpoint
CallerParentIds(thread_id, checkpoint_ns) ==
    LET latest == get_tuple(table, thread_id, checkpoint_ns, NoneId, MaxPage)
        ids == WrittenIds(thread_id, checkpoint_ns)
    IN  {IF latest # <<>> THEN latest[1].config_id ELSE NoneId}
        \cup {i \in ids : \A k \in ids : StrLeq(k, i)}

\* put(config, checkpoint, metadata): a ClientError of put_item is raised as
\* RuntimeError and nothing is written
Put(thread_id, checkpoint_ns) ==
    /\ op = NoOp
    /\ clock < MaxCheckpoints
    /\ \E sample \in Samples, parent_id \in CallerParentIds(thread_id, checkpoint_ns),
          client_error \in BOOLEAN :
        LET checkpoint ==
                [v |-> CheckpointVersion, id |-> CheckpointId(clock + 1),
                 ts |-> IntToStr(clock + 1),
                 channel_values |-> sample.channel_values,
                 channel_versions |-> sample.channel_versions,
                 versions_seen |-> sample.versions_seen]
            item == put_item_of(thread_id, checkpoint_ns, parent_id, checkpoint,
                                sample.metadata, clock + 1)
        IN  IF client_error
            THEN /\ UNCHANGED <<table, clock, written>>
                 /\ op' = [NoOp EXCEPT !.name = "put", !.thread_id = thread_id,
                                       !.checkpoint_ns = checkpoint_ns,
                                       !.status = "RuntimeError", !.fault = TRUE]
            ELSE /\ table' = put_item(table, item)
                 /\ clock' = clock + 1
                 /\ written' = written \cup
                        {[thread_id |-> thread_id, checkpoint_ns |-> checkpoint_ns,
                          id |-> checkpoint.id, parent_id |-> parent_id,
                          checkpoint |-> checkpoint, metadata |-> sample.metadata]}
                 /\ op' = [NoOp EXCEPT !.name = "put", !.thread_id = thread_id,
                                       !.checkpoint_ns = checkpoint_ns,
                                       !.checkpoint_id =
                                           put_config(thread_id, checkpoint_ns,
                                                      checkpoint).checkpoint_id]
    /\ UNCHANGED <<gvars, wvars, inflight>>

\* get_tuple(config) with or without a checkpoint_id
GetTuple(thread_id, checkpoint_ns) ==
    /\ op = NoOp
    /\ \E checkpoint_id \in {NoneId} \cup {CheckpointId(k) : k \in 1..clock},
          page \in 1..MaxPage, client_error \in BOOLEAN :
        op' = [NoOp EXCEPT !.name = "get_tuple", !.thread_id = thread_id,
                           !.checkpoint_ns = checkpoint_ns,
                           !.checkpoint_id = checkpoint_id,
                           !.status = IF client_error THEN "RuntimeError" ELSE "ok",
                           !.fault = client_error,
                           !.result = IF client_error THEN <<>>
                                      ELSE get_tuple(table, thread_id, checkpoint_ns,
                                                     checkpoint_id, page)]
    /\ UNCHANGED <<gvars, wvars, table, clock, written, inflight>>

\* list(config, filter=, before=, limit=), run to the end of the generator
List(thread_id, checkpoint_ns) ==
    /\ op = NoOp
    /\ \E filter \in Filters, before_id \in {NoneId} \cup {CheckpointId(k) : k \in 1..clock},
          limit \in 0..MaxLimit, page \in 1..MaxPage, client_error \in BOOLEAN :
        op' = [NoOp EXCEPT !.name = "list", !.thread_id = thread_id,
                           !.checkpoint_ns = checkpoint_ns,
                           !.filter = filter, !.before_id = before_id, !.limit = limit,
                           !.status = IF client_error THEN "RuntimeError" ELSE "ok",
                           !.fault = client_error,
                           !.result = IF client_error THEN <<>>
                                      ELSE list(table, thread_id, checkpoint_ns,
                                                filter, before_id, limit, page)]
    /\ UNCHANGED <<gvars, wvars, table, clock, written, inflight>>

\* put_writes(config, writes, task_id): pass
put_writes(tbl, thread_id, checkpoint_ns) == tbl

PutWrites(thread_id, checkpoint_ns) ==
    /\ op = NoOp
    /\ table' = put_writes(table, thread_id, checkpoint_ns)
    /\ op' = [NoOp EXCEPT !.name = "put_writes", !.thread_id = thread_id,
                          !.checkpoint_ns = checkpoint_ns]
    /\ UNCHANGED <<gvars, wvars, clock, written, inflight>>

\* the checkpoint_ns of _get_graph_config ("supervisor"), written "a"
SupervisorNs == <<97>>

\* clear_session_history with a DynamoDB checkpointer: nothing is deleted
clear_session_history_deleting(tbl, session_id) ==
    {i \in tbl : i.thread_id # session_id}

clear_session_history(tbl, session_id) == tbl

\* clear_session_history(session_id) returns False
ClearSessionHistory(session_id) ==
    /\ op = NoOp
    /\ table' = clear_session_history(table, session_id)
    /\ op' = [NoOp EXCEPT !.name = "clear_session_history", !.thread_id = session_id,
                          !.checkpoint_ns = SupervisorNs, !.status = "False"]
    /\ UNCHANGED <<gvars, wvars, clock, written, inflight>>

\* get_session_state(session_id): the latest checkpoint as a dict; None if
\* there is none and None if aget_tuple raised
get_session_state(tbl, session_id, raised, page) ==
    IF raised THEN <<>>
    ELSE LET checkpoint_tuple == get_tuple(tbl, session_id, SupervisorNs, NoneId, page)
         IN  IF checkpoint_tuple # <<>>
             THEN <<[session_id |-> session_id,
                     checkpoint_id |-> checkpoint_tuple[1].checkpoint.id,
                     timestamp |-> checkpoint_tuple[1].checkpoint.ts,
                     state |-> checkpoint_tuple[1].checkpoint.channel_values,
                     metadata |-> checkpoint_tuple[1].metadata]>>
             ELSE <<>>

GetSessionState(session_id) ==
    /\ op = NoOp
    /\ \E page \in 1..MaxPage, client_error \in BOOLEAN :
        op' = [NoOp EXCEPT !.name = "get_session_state", !.thread_id = session_id,
                           !.checkpoint_ns = SupervisorNs, !.fault = client_error,
                           !.result = get_session_state(table, session_id,
                                                        client_error, page)]
    /\ UNCHANGED <<gvars, wvars, table, clock, written, inflight>>

\* get_session_history(session_id, limit): the listed checkpoints as dicts;
\* [] if alist raised
get_session_history(tbl, session_id, limit, raised, page) ==
    IF raised THEN <<>>
    ELSE LET tuples == list(tbl, session_id, SupervisorNs, <<>>, NoneId, limit, page)
         IN  [i \in 1..Len(tuples) |->
                [checkpoint_id |-> tuples[i].checkpoint.id,
                 timestamp |-> tuples[i].checkpoint.ts,
                 metadata |-> tuples[i].metadata,
                 messages |-> DictGet(tuples[i].checkpoint.channel_values, PyStr(<<109>>))]]

GetSessionHistory(session_id) ==
    /\ op = NoOp
    /\ \E limit \in 1..MaxLimit, page \in 1..MaxPage, client_error \in BOOLEAN :
        op' = [NoOp EXCEPT !.name = "get_session_history", !.thread_id = session_id,
                           !.checkpoint_ns = SupervisorNs, !.limit = limit,
                           !.fault = client_error,
                           !.result = get_session_history(table, session_id, limit,
                                                          client_error, page)]
    /\ UNCHANGED <<gvars, wvars, table, clock, written, inflight>>

\* the thread whose asynchronous calls are followed
AsyncThread == "t1"

\* await aput(config, checkpoint, metadata), with and without aioboto3: a
\* ClientError of put_item is raised as RuntimeError and nothing is written
APut(thread_id, checkpoint_ns) ==
    /\ op = NoOp
    /\ clock < MaxCheckpoints
    /\ \E sample \in Samples, parent_id \in CallerParentIds(thread_id, checkpoint_ns),
          async_available \in BOOLEAN, client_error \in BOOLEAN :
        LET checkpoint ==
                [v |-> CheckpointVersion, id |-> CheckpointId(clock + 1),
                 ts |-> IntToStr(clock + 1),
                 channel_values |-> sample.channel_values,
                 channel_versions |-> sample.channel_versions,
                 versions_seen |-> sample.versions_seen]
            item == aput_item_of(async_available, thread_id, checkpoint_ns, parent_id,
                                 checkpoint, sample.metadata, clock + 1)
        IN  IF client_error
            THEN /\ UNCHANGED <<table, clock, written>>
                 /\ op' = [NoOp EXCEPT !.name = "aput", !.thread_id = thread_id,
                                       !.checkpoint_ns = checkpoint_ns,
                                       !.async_available = async_available,
                                       !.status = "RuntimeError", !.fault = TRUE]
            ELSE /\ table' = put_item(table, item)
                 /\ clock' = clock + 1
                 /\ written' = written \cup
                        {[thread_id |-> thread_id, checkpoint_ns |-> checkpoint_ns,
                          id |-> checkpoint.id, parent_id |-> parent_id,
                          checkpoint |-> checkpoint, metadata |-> sample.metadata]}
                 /\ op' = [NoOp EXCEPT !.name = "aput", !.thread_id = thread_id,
                                       !.checkpoint_ns = checkpoint_ns,
                                       !.async_available = async_available,
                                       !.checkpoint_id =
                                           aput_config(async_available, thread_id,
                                                       checkpoint_ns,
                                                       checkpoint).checkpoint_id]
    /\ UNCHANGED <<gvars, wvars, inflight>>

\* await aget_tuple(config) with or without a checkpoint_id
AGetTuple(thread_id, checkpoint_ns) ==
    /\ op = NoOp
    /\ \E checkpoint_id \in {NoneId} \cup {CheckpointId(k) : k \in 1..clock},
          page \in 1..MaxPage, async_available \in BOOLEAN, client_error \in BOOLEAN :
        op' = [NoOp EXCEPT !.name = "aget_tuple", !.thread_id = thread_id,
                           !.checkpoint_ns = checkpoint_ns,
                           !.checkpoint_id = checkpoint_id,
                           !.page = page, !.async_available = async_available,
                           !.status = IF client_error THEN "RuntimeError" ELSE "ok",
                           !.fault = client_error,
                           !.result = IF client_error THEN <<>>
                                      ELSE aget_tuple(async_available, table, thread_id,
                                                      checkpoint_ns, checkpoint_id, page)]
    /\ UNCHANGED <<gvars, wvars, table, clock, written, inflight>>

\* async for ... in alist(config, filter=, before=, limit=), run to the end
AList(thread_id, checkpoint_ns) ==
    /\ op = NoOp
    /\ \E filter \in Filters, before_id \in {NoneId} \cup {CheckpointId(k) : k \in 1..clock},
          limit \in 0..MaxLimit, page \in 1..MaxPage, async_available \in BOOLEAN,
          client_error \in BOOLEAN :
        op' = [NoOp EXCEPT !.name = "alist", !.thread_id = thread_id,
                           !.checkpoint_ns = checkpoint_ns,
                           !.filter = filter, !.before_id = before_id, !.limit = limit,
                           !.page = page, !.async_available = async_available,
                           !.status = IF client_error THEN "RuntimeError" ELSE "ok",
                           !.fault = client_error,
                           !.result = IF client_error THEN <<>>
                                      ELSE alist(async_available, table, thread_id,
                                                 checkpoint_ns, filter, before_id, limit,
                                                 page)]
    /\ UNCHANGED <<gvars, wvars, table, clock, written, inflight>>

\* the caller has taken the result of the call
Return ==
    /\ op # NoOp
    /\ op' = NoOp
    /\ UNCHANGED <<gvars, wvars, table, clock, written, inflight>>

\* concurrent callers of put (threads or tasks of the process)
Callers == {"c1", "c2"}

\* a caller that is not in a put
Idle ==
    [phase |-> "idle", thread_id |-> "", checkpoint_ns |-> <<>>, id |-> NoneId,
     parent_id |-> NoneId, checkpoint |-> <<>>, metadata |-> <<>>, created_at |-> 0,
     attempts |-> 0, seq |-> 0]

\* the item a caller's put has built
ItemOf(p) ==
    put_item_of(p.thread_id, p.checkpoint_ns, p.parent_id, p.checkpoint, p.metadata,
                p.created_at)

\* the puts recorded as successful, without the one of a given triple
WrittenExcept(thread_id, checkpoint_ns, id) ==
    {w \in written : ~(w.thread_id = thread_id /\ w.checkpoint_ns = checkpoint_ns /\ w.id = id)}

\* position of the next successful put_item among those of the callers
NextSeq ==
    1 + CHOOSE m \in 0..Cardinality(Callers) :
            /\ \A c \in Callers : inflight[c].seq <= m
            /\ \/ m = 0
               \/ \E c \in Callers : inflight[c].seq = m

\* put() up to the put_item call: the item is built from the arguments and the
\* time of day; the checkpoint id is the caller's, new or one used before.
\* Every caller makes one put.
put_build(c, thread_id, checkpoint_ns) ==
    /\ inflight[c].phase = "idle"
    /\ \E k \in 1..MaxCheckpoints, sample \in Samples :
        \E parent_id \in {NoneId} \cup {CheckpointId(j) : j \in {k - 1} \ {0}} :
            inflight' = [inflight EXCEPT ![c] =
                [phase |-> "built", thread_id |-> thread_id,
                 checkpoint_ns |-> checkpoint_ns, id |-> CheckpointId(k),
                 parent_id |-> parent_id,
                 checkpoint |->
                    [v |-> CheckpointVersion, id |-> CheckpointId(k), ts |-> IntToStr(k),
                     channel_values |-> sample.channel_values,
                     channel_versions |-> sample.channel_versions,
                     versions_seen |-> sample.versions_seen],
                 metadata |-> sample.metadata, created_at |-> clock + 1,
                 attempts |-> 0, seq |-> 0]]
    /\ clock' = clock + 1
    /\ UNCHANGED <<gvars, wvars, table, written, op>>

\* the put_item call of a put and the return or raise that follows it
put_put_item(c) ==
    /\ inflight[c].phase = "built"
    /\ \E client_error \in BOOLEAN :
        LET p == inflight[c]
        IN  IF client_error
            THEN /\ inflight' = [inflight EXCEPT ![c].phase = "RuntimeError",
                                                 ![c].attempts = p.attempts + 1]
                 /\ UNCHANGED <<table, written>>
            ELSE /\ table' = put_item(table, ItemOf(p))
                 /\ written' = WrittenExcept(p.thread_id, p.checkpoint_ns, p.id) \cup
                        {[thread_id |-> p.thread_id, checkpoint_ns |-> p.checkpoint_ns,
                          id |-> p.id, parent_id |-> p.parent_id,
                          checkpoint |-> p.checkpoint, metadata |-> p.metadata,
                          created_at |-> p.created_at]}
                 /\ inflight' = [inflight EXCEPT ![c].phase = "ok",
                                                 ![c].attempts = p.attempts + 1,
                                                 ![c].seq = NextSeq]
    /\ UNCHANGED <<gvars, wvars, clock, op>>

StoreInit ==
    /\ table = {}
    /\ clock = 0
    /\ written = {}
    /\ op = NoOp
    /\ inflight = [c \in Callers |-> Idle]

PutsNext ==
    \/ \E c \in Callers, t \in Threads, ns \in Namespaces : put_build(c, t, ns)
    \/ \E c \in Callers : put_put_item(c)

StoreNext ==
    \/ \E t \in Threads, ns \in Namespaces : Put(t, ns)
    \/ \E t \in Threads, ns \in Namespaces : GetTuple(t, ns)
    \/ \E t \in Threads, ns \in Namespaces : List(t, ns)
    \/ \E t \in Threads, ns \in Namespaces : PutWrites(t, ns)
    \/ \E t \in Threads : ClearSessionHistory(t)
    \/ \E t \in Threads : GetSessionState(t)
    \/ \E t \in Threads : GetSessionHistory(t)
    \/ Return

----------------------------------------------------------------------------
(* The WebSocket event client (websocket_event_client.py): the thread that *)
(* calls connect() and close(), and the listener threads connect() starts  *)

\* the thread of the owner of the client
MainThread == "main"

ListenerNames == <<"listener1", "listener2", "listener3", "listener4">>

\* the listener threads: connect() starts a new one at every success
Listeners == {ListenerNames[i] : i \in 1..MaxListeners}

WsThreads == {MainThread} \cup Listeners

NoThread == "nobody"

auto_reconnect == TRUE

max_reconnect_attempts == 5

WsInit ==
    /\ ws = "none"
    /\ connected = FALSE
    /\ running = FALSE
    /\ reconnect_count = 0
    /\ lock = NoThread
    /\ wpc = [t \in WsThreads |-> IF t = MainThread THEN "idle" ELSE "none"]
    /\ tmp = [t \in WsThreads |-> 0]
    /\ reconnecting = [t \in WsThreads |-> FALSE]
    /\ closed = FALSE
    /\ failures = 0

\* where a thread is when its outermost call has returned: the owner is
\* free again, a listener thread has ended
returned(t) == IF t = MainThread THEN "idle" ELSE "none"

\* the with-block of the outermost connect() of a thread ends
release(t) == IF lock = t THEN NoThread ELSE lock

\* the owner calls connect()
call_connect ==
    /\ wpc[MainThread] = "idle"
    /\ wpc' = [wpc EXCEPT ![MainThread] = "connect"]
    /\ closed' = FALSE
    /\ UNCHANGED <<ws, connected, running, reconnect_count, lock, tmp,
                   reconnecting, failures>>

\* connect(), the body of its with-block up to its return or to the call of
\* _attempt_reconnect(); handshake is whether ws.connect() returns
connect(t) ==
    /\ wpc[t] = "connect"
    /\ lock \in {NoThread, t}
    /\ IF connected
       THEN /\ wpc' = [wpc EXCEPT ![t] = returned(t)]
            /\ lock' = release(t)
            /\ reconnecting' = [reconnecting EXCEPT ![t] = FALSE]
            /\ UNCHANGED <<ws, connected, running, reconnect_count, failures>>
       ELSE \E handshake \in BOOLEAN :
              IF handshake
              THEN \E l \in Listeners :
                     /\ wpc[l] = "none"
                     /\ ws' = "open"
                     /\ connected' = TRUE
                     /\ running' = TRUE
                     /\ reconnect_count' = 0
                     /\ wpc' = [wpc EXCEPT ![t] = returned(t), ![l] = "loop"]
                     /\ lock' = release(t)
                     /\ reconnecting' = [reconnecting EXCEPT ![t] = FALSE]
                     /\ failures' = 0
              ELSE /\ ws' = "broken"
                   /\ connected' = FALSE
                   /\ IF auto_reconnect
                      THEN /\ wpc' = [wpc EXCEPT ![t] = "attempt"]
                           /\ lock' = t
                      ELSE /\ wpc' = [wpc EXCEPT ![t] = returned(t)]
                           /\ lock' = release(t)
                   /\ failures' =
                          IF reconnecting[t] THEN failures + 1 ELSE failures
                   /\ UNCHANGED <<running, reconnect_count, reconnecting>>
    /\ UNCHANGED <<tmp, closed>>

\* _listen_for_messages: the test of the while loop
listen_test(t) ==
    /\ wpc[t] = "loop"
    /\ wpc' = [wpc EXCEPT ![t] = IF running /\ connected THEN "recv"
                                 ELSE returned(t)]
    /\ UNCHANGED <<ws, connected, running, reconnect_count, lock, tmp,
                   reconnecting, closed, failures>>

\* _listen_for_messages: ws.recv() returns a message, raises
\* WebSocketConnectionClosedException or raises another exception
listen_recv(t) ==
    /\ wpc[t] = "recv"
    /\ \E outcome \in {"message", "closed", "error"} :
         \/ /\ outcome = "message"
            /\ ws = "open"
            /\ wpc' = [wpc EXCEPT ![t] = "loop"]
            /\ UNCHANGED connected
         \/ /\ outcome = "closed"
            /\ connected' = FALSE
            /\ wpc' = [wpc EXCEPT ![t] = IF auto_reconnect THEN "attempt"
                                         ELSE returned(t)]
         \/ /\ outcome = "error"
            /\ wpc' = [wpc EXCEPT ![t] = IF running /\ auto_reconnect
                                         THEN "attempt" ELSE returned(t)]
            /\ UNCHANGED connected
    /\ UNCHANGED <<ws, running, reconnect_count, lock, tmp, reconnecting,
                   closed, failures>>

\* _attempt_reconnect(): the test of the counter
attempt_test(t) ==
    /\ wpc[t] = "attempt"
    /\ IF reconnect_count >= max_reconnect_attempts
       THEN /\ wpc' = [wpc EXCEPT ![t] = returned(t)]
            /\ lock' = release(t)
            /\ reconnecting' = [reconnecting EXCEPT ![t] = FALSE]
       ELSE /\ wpc' = [wpc EXCEPT ![t] = "load"]
            /\ reconnecting' = [reconnecting EXCEPT ![t] = TRUE]
            /\ UNCHANGED lock
    /\ UNCHANGED <<ws, connected, running, reconnect_count, tmp, closed,
                   failures>>

\* self.reconnect_count += 1: the load of the attribute
attempt_load(t) ==
    /\ wpc[t] = "load"
    /\ tmp' = [tmp EXCEPT ![t] = reconnect_count]
    /\ wpc' = [wpc EXCEPT ![t] = "store"]
    /\ UNCHANGED <<ws, connected, running, reconnect_count, lock,
                   reconnecting, closed, failures>>

\* self.reconnect_count += 1: the store of the attribute
attempt_store(t) ==
    /\ wpc[t] = "store"
    /\ tmp[t] < MaxReconnectCount
    /\ reconnect_count' = tmp[t] + 1
    /\ tmp' = [tmp EXCEPT ![t] = 0]
    /\ wpc' = [wpc EXCEPT ![t] = "cleanup"]
    /\ UNCHANGED <<ws, connected, running, lock, reconnecting, closed,
                   failures>>

\* _attempt_reconnect(): the clean-up of the connection; the thread then
\* sleeps and calls connect()
attempt_cleanup(t) ==
    /\ wpc[t] = "cleanup"
    /\ running' = FALSE
    /\ connected' = FALSE
    /\ ws' = "none"
    /\ wpc' = [wpc EXCEPT ![t] = "connect"]
    /\ UNCHANGED <<reconnect_count, lock, tmp, reconnecting, closed,
                   failures>>

\* close(), called by the owner
close ==
    /\ wpc[MainThread] = "idle"
    /\ running' = FALSE
    /\ connected' = FALSE
    /\ ws' = "none"
    /\ closed' = TRUE
    /\ UNCHANGED <<reconnect_count, lock, wpc, tmp, reconnecting, failures>>

----------------------------------------------------------------------------
(* Specifications *)

Init == GraphInit /\ StoreInit /\ WsInit

Next ==
    \/ process_request /\ UNCHANGED <<svars, wvars>>
    \/ supervisor_node /\ UNCHANGED <<svars, wvars>>
    \/ \E a \in valid_agents : generic_agent_node(a) /\ UNCHANGED <<svars, wvars>>
    \/ synthesizer_node /\ UNCHANGED <<svars, wvars>>
    \/ astream_raises /\ UNCHANGED <<svars, wvars>>

\* the supervisor graph, one turn on a thread
Spec == Init /\ [][Next]_vars

\* what the checkpoint of a thread holds after an earlier turn: a turn of two
\* specialists, one of which returned null, and a turn answered directly
\* whose decision also named a specialist
StaleCheckpoints ==
    {[customer_message |-> "Where is my order?", session_id |-> "s2",
      customer_id |-> "cust001", context |-> "{'channel': 'web'}",
      can_respond_directly |-> FALSE, direct_response |-> None,
      selected_agents |-> <<"product_recommendation", "troubleshooting">>,
      agents_to_call |-> <<>>,
      agent_responses |-> [EmptyResponses EXCEPT
                               !["product_recommendation"] = "text",
                               !["troubleshooting"] = None],
      synthesized_response |->
          [kind |-> "single", text |-> "Based on my analysis: ",
           uses |-> {"product_recommendation"}, asked |-> FALSE],
      confidence_score |-> AgentsConfidence],
     [customer_message |-> "Hello", session_id |-> "s1",
      customer_id |-> None, context |-> None,
      can_respond_directly |-> TRUE, direct_response |-> "Hello",
      selected_agents |-> <<"product_recommendation">>,
      agents_to_call |-> <<>>,
      agent_responses |-> [EmptyResponses EXCEPT
                               !["product_recommendation"] = "text"],
      synthesized_response |->
          [kind |-> "direct", text |-> "Hello", uses |-> {}, asked |-> FALSE],
      confidence_score |-> DirectConfidence]}

\* the channels hold what a checkpoint holds (true of the end of a turn)
HoldsCheckpoint(st) ==
    /\ customer_message = st.customer_message
    /\ request_session_id = st.session_id
    /\ customer_id = st.customer_id
    /\ context = st.context
    /\ can_respond_directly = st.can_respond_directly
    /\ direct_response = st.direct_response
    /\ selected_agents = st.selected_agents
    /\ agents_to_call = st.agents_to_call
    /\ agent_responses = st.agent_responses
    /\ synthesized_response = st.synthesized_response
    /\ confidence_score = st.confidence_score

\* a thread resumed from the checkpoint of an earlier turn
ResumedInit ==
    /\ \E st \in StaleCheckpoints : HoldsCheckpoint(st)
    /\ sent = NothingSent
    /\ pc = "idle"
    /\ todo = {}
    /\ nxt = {}
    /\ oracle = NoOracle
    /\ calls = <<>>
    /\ failed = {}
    /\ executed = <<>>
    /\ reply = NoReply
    /\ StoreInit
    /\ WsInit

\* the oracle outputs that differ after the clean-up of the decision: lists
\* of known specialists no longer than the cut
TurnOracleOutputs ==
    {[ok |-> FALSE, can_respond_directly |-> FALSE, direct_response |-> None,
      selected_agents |-> <<>>]}
    \cup
    [ok : {TRUE}, can_respond_directly : BOOLEAN, direct_response : DirectTexts,
     selected_agents : SeqsUpTo(valid_agents, MaxSelectedAgents)]

\* a turn on the resumed thread (thread_id = session_id), every oracle and
\* every specialist call returning or raising
ResumedNext ==
    \/ /\ process_request_of({[r EXCEPT !.session_id = request_session_id] :
                                  r \in Requests})
       /\ UNCHANGED <<svars, wvars>>
    \/ supervisor_node_of(TurnOracleOutputs) /\ UNCHANGED <<svars, wvars>>
    \/ \E a \in valid_agents : generic_agent_node(a) /\ UNCHANGED <<svars, wvars>>
    \/ synthesizer_node /\ UNCHANGED <<svars, wvars>>

\* one turn on a resumed thread; a node that is scheduled runs, and every
\* step of a turn changes pc or executed
SpecResumed ==
    ResumedInit /\ [][ResumedNext]_vars /\ WF_<<pc, executed>>(ResumedNext)

\* the checkpoint saver under its callers
SpecStore == Init /\ [][StoreNext]_vars

\* concurrent puts: put_item calls of different callers in any order
SpecPuts == Init /\ [][PutsNext]_vars

AsyncNext ==
    \/ \E ns \in Namespaces : APut(AsyncThread, ns)
    \/ \E ns \in Namespaces : AGetTuple(AsyncThread, ns)
    \/ \E ns \in Namespaces : AList(AsyncThread, ns)
    \/ Return

\* the asynchronous methods of the checkpoint saver under the caller of one
\* thread
SpecAsync == Init /\ [][AsyncNext]_vars

WsNext ==
    \/ call_connect /\ UNCHANGED <<gvars, svars>>
    \/ close /\ UNCHANGED <<gvars, svars>>
    \/ \E t \in WsThreads : connect(t) /\ UNCHANGED <<gvars, svars>>
    \/ \E t \in Listeners : listen_test(t) /\ UNCHANGED <<gvars, svars>>
    \/ \E t \in Listeners : listen_recv(t) /\ UNCHANGED <<gvars, svars>>
    \/ \E t \in WsThreads : attempt_test(t) /\ UNCHANGED <<gvars, svars>>
    \/ \E t \in WsThreads : attempt_load(t) /\ UNCHANGED <<gvars, svars>>
    \/ \E t \in WsThreads : attempt_store(t) /\ UNCHANGED <<gvars, svars>>
    \/ \E t \in WsThreads : attempt_cleanup(t) /\ UNCHANGED <<gvars, svars>>

\* the WebSocket event client under its owner and its listener threads
SpecWs == Init /\ [][WsNext]_vars

----------------------------------------------------------------------------
(* Claims about the supervisor graph *)

IsPrefix(s, t) == Len(s) <= Len(t) /\ SubSeq(t, 1, Len(s)) = s

OracleAnsweredDirectly ==
    oracle.ok /\ oracle.can_respond_directly /\ Truthy(oracle.direct_response)

\* C1: when the decision oracle returns can_respond_directly = true with a
\* non-empty direct answer, no call_agent occurs in the turn and the turn ends
\* with the direct answer, verbatim, at confidence 0.9.
C1_DirectAnswerShortCircuit ==
    OracleAnsweredDirectly =>
        /\ calls = <<>>
        /\ pc = "done" =>
              /\ synthesized_response =
                     [kind |-> "direct", text |-> oracle.direct_response, uses |-> {},
                      asked |-> FALSE]
              /\ confidence_score = DirectConfidence

C3_FailureIsolation ==
    (pc = "done" /\ can_respond_directly = FALSE) =>
        \A X \in failed : \A Y, Z \in valid_agents \ {X} :
            (Y # Z /\ agent_responses[Y] = "text" /\ agent_responses[Z] = "text")
                => /\ synthesized_response.kind # "unset"
                   /\ {Y, Z} \subseteq synthesized_response.uses

\* the decision oracle has been asked in this turn
Routed == oracle # NoOracle

\* the supervisor node has run and no other node has yet
JustRouted == executed = <<SUPERVISOR>>

\* the oracle returned a decision that is not "direct" without a text
NormalDecision ==
    /\ Routed
    /\ oracle.ok
    /\ ~(oracle.can_respond_directly /\ ~Truthy(oracle.direct_response))

\* C18: after the supervisor node, on every path and for every oracle output,
\* selected_agents has at most 3 entries (also for _select_agents of
\* supervir_agent_graph.py, whatever the intent analysis returned).
C18_RoutingBound ==
    /\ Routed => Len(selected_agents) <= MaxSelectedAgents
    /\ JustRouted =>
          \A primary_intent \in Intents, customer_id_mentioned \in BOOLEAN :
              Len(select_agents(oracle, primary_intent, customer_id_mentioned))
                  <= MaxSelectedAgents

\* the oracle proposed more than three specialists, all of them known
C18_Witness ==
    /\ NormalDecision
    /\ Len(FilterSeq(oracle.selected_agents, valid_agents)) > MaxSelectedAgents
    /\ Len(selected_agents) = MaxSelectedAgents

\* C19: for every oracle output, selected_agents names no specialist more
\* than once.
C19_Deduplicated ==
    Routed =>
        \A i \in 1..Len(selected_agents), j \in 1..Len(selected_agents) :
            i # j => selected_agents[i] # selected_agents[j]

\* the positions of the known specialists in a list
KnownAt(s) == {i \in 1..Len(s) : s[i] \in valid_agents}

\* the k-th smallest element of a set of numbers
RECURSIVE Kth(_, _)
Kth(S, k) ==
    LET least == CHOOSE i \in S : \A j \in S : i <= j
    IN  IF k = 1 THEN least ELSE Kth(S \ {least}, k - 1)

\* C20: on the normal decision path the selected_agents the supervisor node
\* leaves (no later node writes it) is the oracle's list
\* without the names outside the four specialists, in the oracle's order,
\* cut to its first 3 entries, and the decision is kept, not replaced by
\* the fallback.
C20_FilterAndTruncate ==
    (JustRouted /\ NormalDecision) =>
        LET known == KnownAt(oracle.selected_agents)
        IN  /\ Len(selected_agents) = Min(Cardinality(known), 3)
            /\ \A k \in 1..Len(selected_agents) :
                  selected_agents[k] = oracle.selected_agents[Kth(known, k)]
            /\ can_respond_directly = oracle.can_respond_directly

\* the oracle's list names an unknown agent before known ones and is longer
\* than 3
C20_Witness ==
    /\ NormalDecision
    /\ Len(oracle.selected_agents) > 3
    /\ oracle.selected_agents[1] \notin valid_agents
    /\ Len(selected_agents) = 3

\* C21: in a turn no node runs more than once, no superstep holds two nodes
\* (no two nodes run concurrently), and a finished turn has run exactly
\* len(selected_agents) + 2 nodes, whatever the oracle returned and whichever
\* calls failed.
C21_SequentialExecution ==
    /\ Cardinality(todo) <= 1
    /\ \A i \in 1..Len(executed), j \in 1..Len(executed) :
          i # j => executed[i] # executed[j]
    /\ pc = "done" => Len(executed) = Len(selected_agents) + 2

\* the decision oracle raised (or timed out), or returned
\* can_respond_directly = true without a direct answer
RouterFallback ==
    /\ Routed
    /\ \/ ~oracle.ok
       \/ oracle.can_respond_directly /\ ~Truthy(oracle.direct_response)

\* C22: when the decision oracle fails or returns can_respond_directly = true
\* without a direct answer, the turn does not fail: the flag is cleared,
\* selected_agents is exactly the one default specialist, some node is
\* scheduled while the turn runs, and the turn ends with the synthesizer
\* having produced a final answer.
C22_RouterFallback ==
    RouterFallback =>
        /\ can_respond_directly = FALSE
        /\ selected_agents = <<"order_management">>
        /\ pc \in {"running", "done"}
        /\ pc = "running" =>
              todo # {} /\ todo \subseteq valid_agents \cup {SYNTHESIZER}
        /\ pc = "done" =>
              /\ executed[Len(executed)] = SYNTHESIZER
              /\ synthesized_response.kind # "unset"
              /\ Truthy(synthesized_response.text)

\* the oracle claimed a direct answer without giving one and proposed other
\* specialists; the turn ran the default specialist and ended
C22_Witness ==
    /\ pc = "done"
    /\ oracle.ok /\ oracle.can_respond_directly /\ ~Truthy(oracle.direct_response)
    /\ oracle.selected_agents = <<"troubleshooting", "personalization">>
    /\ calls = <<"order_management">>
    /\ synthesized_response.kind = "single"

\* C23: whenever the supervisor node uses the fallback for a request whose
\* customer_id is not null, the fallback selected_agents has personalization
\* as its first element.
C23_FallbackPersonalizes ==
    (RouterFallback /\ customer_id # None) =>
        /\ selected_agents # <<>>
        /\ selected_agents[1] = "personalization"

\* C24: on the direct-answer path the state the supervisor node writes has
\* selected_agents and agents_to_call both empty, and the next node to run is
\* the synthesizer and nothing else.
C24_DirectPathState ==
    (JustRouted /\ can_respond_directly = TRUE) =>
        /\ selected_agents = <<>>
        /\ agents_to_call = <<>>
        /\ todo = {SYNTHESIZER}

IsSuffix(s, t) == Len(s) <= Len(t) /\ SubSeq(t, Len(t) - Len(s) + 1, Len(t)) = s

\* the number of occurrences of x in s
Count(x, s) == Cardinality({i \in 1..Len(s) : s[i] = x})

\* C25: at every step of a turn agents_to_call is a suffix of
\* selected_agents; no step after the supervisor node changes
\* selected_agents; and no step after it adds an identifier to
\* agents_to_call.
C25_RemainingIsSuffix ==
    /\ [](IsSuffix(agents_to_call, selected_agents))
    /\ [][executed # <<>> =>
             /\ selected_agents' = selected_agents
             /\ \A a \in valid_agents :
                   Count(a, agents_to_call') <= Count(a, agents_to_call)]_vars

\* three specialists selected, the first two have run (one of them failed),
\* the third remains
C25_Witness ==
    /\ pc = "running"
    /\ Len(selected_agents) = 3
    /\ Len(calls) = 2
    /\ failed # {}
    /\ agents_to_call = <<selected_agents[3]>>

\* C26: after a specialist node whose call failed, agent_responses has an
\* entry under that specialist that is an error marker (not a response); after
\* one whose call succeeded, the entry is the raw response call_agent returned.
C26_ResponseEntryAfterCall ==
    \A a \in valid_agents :
        Count(a, calls) = 1 =>
            IF a \in failed
            THEN agent_responses[a] \notin {Absent} \cup (CallOutcomes \ {"raise"})
            ELSE agent_responses[a] \in CallOutcomes \ {"raise"}

\* the synthesizer took the direct answer of the supervisor
DirectAnswer == can_respond_directly = TRUE /\ Truthy(direct_response)

\* the specialists whose stored response is not null
valid_responses == {a \in valid_agents : agent_responses[a] \notin {Absent, None}}

\* C27: when a turn ends without direct answer and with no valid response
\* (none selected, every call failed, or every stored response null), the
\* final answer is the canned unable-to-help message and the confidence is
\* 0.1.
C27_NoValidResponseIsLow ==
    (pc = "done" /\ ~DirectAnswer /\ valid_responses = {}) =>
        /\ synthesized_response.text = ApologyMsg
        /\ confidence_score = LowConfidence

\* C28: when a turn ends without direct answer and with two or more valid
\* responses, the final answer is built from all of them: by the synthesis
\* oracle, or, if that oracle failed, as the concatenation of the responses.
C28_SynthesisFallbackConcatenates ==
    (pc = "done" /\ ~DirectAnswer /\ Cardinality(valid_responses) >= 2) =>
        /\ synthesized_response.kind # "canned"
        /\ synthesized_response.uses = valid_responses

\* the synthesis oracle was called and failed: the degraded answer
SynthesisFailed == synthesized_response.text = TroubleMsg

\* C29: a turn whose answer comes from a single response or from a
\* successful synthesis ends at one confidence (0.8), and a turn whose answer
\* is the degraded one after a failed synthesis ends at a strictly lower
\* confidence.
C29_ConfidenceBands ==
    (pc = "done" /\ ~DirectAnswer) =>
        /\ synthesized_response.kind \in {"single", "synthesis"} =>
              confidence_score = AgentsConfidence
        /\ SynthesisFailed => confidence_score < AgentsConfidence

\* C30: whenever a turn ends in failure the caller receives a canned or
\* oracle-written natural-language message at confidence 0.1 and never the
\* text of the exception: when the graph run raised (under process_request
\* and under the streaming path), when no specialist gave a valid response,
\* and when the synthesis oracle failed.
C30_FailureIsPolite ==
    /\ pc = "raised" =>
          /\ reply.type = "response"
          /\ Truthy(reply.response)
          /\ reply.confidence_score = LowConfidence
    /\ (pc = "done" /\ ~DirectAnswer /\ (valid_responses = {} \/ SynthesisFailed)) =>
          /\ synthesized_response.text \in {ApologyMsg, TroubleMsg}
          /\ confidence_score = LowConfidence

\* C31: the body posted to a specialist, whichever it is, has the fields
\* customer_message, session_id, customer_id and context with the values of
\* the turn's request; a query field posted to the troubleshooting or the
\* personalization specialist equals customer_message.
C31_RequestEnvelope ==
    calls # <<>> =>
        /\ {"customer_message", "session_id", "customer_id", "context"}
               \subseteq DOMAIN sent
        /\ sent.customer_message = customer_message
        /\ sent.session_id = request_session_id
        /\ sent.customer_id = customer_id
        /\ sent.context = context
        /\ (calls[Len(calls)] \in {"troubleshooting", "personalization"}
              /\ "query" \in DOMAIN sent) => sent.query = customer_message

\* the step runs node n
NodeStep(n) == executed' = Append(executed, n)

\* C32: within a turn the supervisor step and the specialist steps leave
\* customer_message, session_id and customer_id as they are, and
\* synthesized_response and confidence_score change only in a synthesizer
\* step.
C32_FrameOfNodes ==
    [][/\ (\E n \in {SUPERVISOR} \cup valid_agents : NodeStep(n)) =>
             /\ customer_message' = customer_message
             /\ request_session_id' = request_session_id
             /\ customer_id' = customer_id
       /\ (synthesized_response' # synthesized_response
             \/ confidence_score' # confidence_score) => NodeStep(SYNTHESIZER)]_vars

\* the supervisor and two specialists have run on a request with a customer
\* id, the synthesizer has not
C32_Witness ==
    /\ pc = "running"
    /\ Len(executed) = 3
    /\ Len(calls) = 2
    /\ customer_id = "cust001"
    /\ customer_message = "Where is my order?"
    /\ synthesized_response = NoAnswer
    /\ confidence_score = None

EntriesOf(a) == {e \in response_data.agent_responses : e.agent_type = a}

\* C39: in the result of a turn that ran to its end, agents_called is the
\* selected_agents of the supervisor node (failed specialists included), a
\* specialist whose call failed has no entry in agent_responses, a specialist
\* whose call returned a non-null response has exactly one, and there are no
\* other entries.
C39_ResultLists ==
    pc = "done" =>
        /\ response_data.agents_called = make_supervisor_decision(oracle).selected_agents
        /\ \A a \in valid_agents :
              /\ a \in failed => EntriesOf(a) = {}
              /\ (a \notin failed /\ InSeq(a, calls) /\ agent_responses[a] # None)
                    => Cardinality(EntriesOf(a)) = 1
              /\ EntriesOf(a) # {} => InSeq(a, calls)

TurnAnswers ==
    LET d == make_supervisor_decision(oracle)
    IN  IF d.can_respond_directly /\ Truthy(d.direct_response)
        THEN {[synthesized_response |->
                   [kind |-> "direct", text |-> d.direct_response, uses |-> {},
                    asked |-> FALSE],
               confidence_score |-> DirectConfidence]}
        ELSE {[synthesized_response |-> synthesize_response(agent_responses, ok),
               confidence_score |->
                   IF agent_responses # EmptyResponses THEN AgentsConfidence
                   ELSE LowConfidence] : ok \in BOOLEAN}

\* C36: on a thread resumed from the checkpoint of an earlier turn, the
\* supervisor node runs first and overwrites can_respond_directly,
\* direct_response, selected_agents and agents_to_call with this turn's
\* decision and empties agent_responses; afterwards agent_responses only has
\* entries of specialists called in this turn, and the final answer and
\* confidence are those computed from this turn's decision and responses.
C36_NoCrossTurnLeak ==
    /\ executed # <<>> => executed[1] = SUPERVISOR
    /\ JustRouted => agent_responses = EmptyResponses
    /\ Routed =>
          LET d == make_supervisor_decision(oracle)
          IN  /\ can_respond_directly = d.can_respond_directly
              /\ direct_response = d.direct_response
              /\ selected_agents = d.selected_agents
              /\ calls \o agents_to_call = selected_agents
              /\ \A a \in valid_agents :
                    agent_responses[a] # Absent => InSeq(a, calls)
    /\ pc = "done" =>
          [synthesized_response |-> synthesized_response,
           confidence_score |-> confidence_score] \in TurnAnswers

\* the earlier turn left a response of product_recommendation; this turn
\* called order_management only and answered from its response
C36_Witness ==
    /\ pc = "done"
    /\ calls = <<"order_management">>
    /\ agent_responses["product_recommendation"] = Absent
    /\ synthesized_response.kind = "single"
    /\ synthesized_response.uses = {"order_management"}

----------------------------------------------------------------------------
(* Claims about the checkpoint saver *)

\* the puts made for a thread and namespace
WrittenFor(thread_id, checkpoint_ns) ==
    {w \in written : w.thread_id = thread_id /\ w.checkpoint_ns = checkpoint_ns}

\* the stored item of a checkpoint id in a thread and namespace, <<>> if none
StoredItem(thread_id, checkpoint_ns, checkpoint_id) ==
    get_item(table, create_key(thread_id, checkpoint_ns, checkpoint_id))

\* following parent links from a stored checkpoint ends at a checkpoint
\* without parent, within fuel steps
RECURSIVE ChainEnds(_, _, _, _)
ChainEnds(thread_id, checkpoint_ns, checkpoint_id, fuel) ==
    LET found == StoredItem(thread_id, checkpoint_ns, checkpoint_id)
    IN  /\ fuel > 0
        /\ found # <<>>
        /\ \/ found[1].parent_checkpoint_id = NoneId
           \/ ChainEnds(thread_id, checkpoint_ns, found[1].parent_checkpoint_id, fuel - 1)

\* C4: every stored checkpoint with a parent_id has a stored checkpoint with
\* that id in the same thread and namespace, and the parent links from any
\* checkpoint lead to a checkpoint without parent.
C4_ChainIntegrity ==
    \A w \in written :
        ChainEnds(w.thread_id, w.checkpoint_ns, w.id, MaxCheckpoints + 1)

\* the greatest of a non-empty set of ids
MaxId(ids) == CHOOSE i \in ids : \A k \in ids : StrLeq(k, i)

\* C6: get_tuple without checkpoint_id returns the checkpoint with the
\* greatest id among those put for exactly that thread and namespace, and
\* returns None exactly when nothing was put for them.
C6_GetLatest ==
    (op.name = "get_tuple" /\ op.checkpoint_id = NoneId /\ op.status = "ok") =>
        LET ids == WrittenIds(op.thread_id, op.checkpoint_ns)
        IN  /\ op.result = <<>> <=> ids = {}
            /\ ids # {} =>
                 \E w \in WrittenFor(op.thread_id, op.checkpoint_ns) :
                    /\ w.id = MaxId(ids)
                    /\ op.result[1].checkpoint.id = w.id
                    /\ op.result[1].checkpoint.channel_values = w.checkpoint.channel_values

\* C7: the sequence list returns is in strictly descending checkpoint id order.
C7_ListDescending ==
    (op.name = "list" /\ op.status = "ok") =>
        \A i \in 1..(Len(op.result) - 1) :
            StrLess(op.result[i + 1].checkpoint.id, op.result[i].checkpoint.id)

\* the ids, newest first, of the checkpoints put for a thread and namespace
\* whose metadata match the filter and whose id is below before_id
RECURSIVE IdsDescending(_)
IdsDescending(ids) ==
    IF ids = {} THEN <<>>
    ELSE <<MaxId(ids)>> \o IdsDescending(ids \ {MaxId(ids)})

ExpectedIds(thread_id, checkpoint_ns, filter, before_id) ==
    IdsDescending({w.id : w \in {x \in WrittenFor(thread_id, checkpoint_ns) :
        /\ MatchesFilter(x.metadata, filter)
        /\ before_id = NoneId \/ StrLess(x.id, before_id)}})

\* C8: with limit n >= 1, list returns exactly the min(n, m) newest of the m
\* checkpoints of the thread and namespace that satisfy filter and before
\* (stated for a thread that holds checkpoints of that one namespace only).
C8_ListComplete ==
    (/\ op.name = "list" /\ op.status = "ok" /\ op.limit >= 1
     /\ \A w \in written : w.thread_id = op.thread_id => w.checkpoint_ns = op.checkpoint_ns)
    =>
        LET expected == ExpectedIds(op.thread_id, op.checkpoint_ns, op.filter, op.before_id)
        IN  [i \in 1..Len(op.result) |-> op.result[i].checkpoint.id]
                = SubSeq(expected, 1, Min(op.limit, Len(expected)))

\* C9: every checkpoint list returns matches the filter on every given pair
\* and has an id strictly below before's, and with limit n >= 1 at most n
\* checkpoints are returned.
C9_ListSound ==
    (op.name = "list" /\ op.status = "ok") =>
        /\ \A i \in 1..Len(op.result) :
              /\ MatchesFilter(op.result[i].metadata, op.filter)
              /\ op.before_id # NoneId => StrLess(op.result[i].checkpoint.id, op.before_id)
        /\ op.limit >= 1 => Len(op.result) <= op.limit

\* C10: get_tuple of the thread, namespace and id of a put returns the
\* channel_values, channel_versions, versions_seen and metadata that were put.
C10_RoundTrip ==
    (op.name = "get_tuple" /\ op.checkpoint_id # NoneId /\ op.status = "ok") =>
        \A w \in WrittenFor(op.thread_id, op.checkpoint_ns) :
            w.id = op.checkpoint_id =>
                /\ op.result # <<>>
                /\ op.result[1].checkpoint = w.checkpoint
                /\ op.result[1].metadata = w.metadata
                /\ op.result[1].parent_id = w.parent_id

\* a get_tuple that returned a checkpoint put with nested channel values
C10_Witness ==
    /\ op.name = "get_tuple" /\ op.checkpoint_id # NoneId /\ op.status = "ok"
    /\ op.result # <<>>
    /\ op.result[1].checkpoint.channel_values = LoopSample.channel_values
    /\ op.result[1].metadata = LoopSample.metadata
    /\ \E w \in WrittenFor(op.thread_id, op.checkpoint_ns) : w.id = op.checkpoint_id

\* get_tuple with this checkpoint id returns a tuple: get_item finds the item
Retrievable(thread_id, checkpoint_ns, checkpoint_id) ==
    StoredItem(thread_id, checkpoint_ns, checkpoint_id) # <<>>

\* C15: no operation removes a stored checkpoint: every checkpoint id that
\* was put for a thread and namespace is retrievable by get_tuple in every
\* later state.
C15_HistoryKept ==
    \A w \in written : Retrievable(w.thread_id, w.checkpoint_ns, w.id)

\* clear_session_history has run on a session that has a checkpoint, and the
\* checkpoint is still retrievable
C15_Witness ==
    /\ op.name = "clear_session_history"
    /\ \E w \in WrittenFor(op.thread_id, SupervisorNs) :
          get_tuple(table, op.thread_id, SupervisorNs, w.id, MaxPage) # <<>>

\* C16: a storage fault during get_tuple, list, get_session_state or
\* get_session_history reaches the caller as an error, never as None or as an
\* empty listing.
C16_ReadFaultIsError ==
    (op.fault /\ op.name \in {"get_tuple", "list", "get_session_state",
                              "get_session_history"})
        => op.status = "RuntimeError"


\* the put that has just returned, as its caller passed it
JustPut ==
    CHOOSE w \in written :
        /\ w.thread_id = op.thread_id
        /\ w.checkpoint_ns = op.checkpoint_ns
        /\ w.id = op.checkpoint_id

----------------------------------------------------------------------------
(* Claims about concurrent puts *)

\* the callers whose put has returned
Done == {c \in Callers : inflight[c].phase = "ok"}

SameTriple(p, q) ==
    p.thread_id = q.thread_id /\ p.checkpoint_ns = q.checkpoint_ns /\ p.id = q.id

\* C11: for any two puts whose (thread_id, checkpoint_ns, checkpoint id)
\* differ in at least one component, both records exist afterwards, each as
\* its put wrote it.
C11_PutKeyUnique ==
    \A c \in Done, d \in Done :
        ~SameTriple(inflight[c], inflight[d]) =>
            StoredItem(inflight[c].thread_id, inflight[c].checkpoint_ns, inflight[c].id)
                = <<ItemOf(inflight[c])>>

\* two puts that differ in the namespace only have both returned
C11_Witness ==
    \E c \in Done, d \in Done :
        /\ inflight[c].thread_id = inflight[d].thread_id
        /\ inflight[c].id = inflight[d].id
        /\ inflight[c].checkpoint_ns # inflight[d].checkpoint_ns
        /\ ItemOf(inflight[c]) \in table
        /\ ItemOf(inflight[d]) \in table

OwnItems(thread_id, checkpoint_ns) ==
    {i \in table : \E w \in WrittenFor(thread_id, checkpoint_ns) :
        ItemKey(i) = create_key(thread_id, checkpoint_ns, w.id)}

C14_LastWriterWins ==
    \A c \in Done, d \in Done :
        (SameTriple(inflight[c], inflight[d]) /\ inflight[c].seq < inflight[d].seq) =>
            {i \in table : ItemKey(i) = create_key(inflight[d].thread_id,
                                                   inflight[d].checkpoint_ns,
                                                   inflight[d].id)}
                = {ItemOf(inflight[d])}

\* two puts of different content to one key have overlapped: the one that
\* was started first called put_item last, and its record is the stored one
C14_Witness ==
    \E c \in Done, d \in Done :
        /\ SameTriple(inflight[c], inflight[d])
        /\ inflight[c].checkpoint # inflight[d].checkpoint
        /\ inflight[d].created_at < inflight[c].created_at
        /\ inflight[c].seq < inflight[d].seq
        /\ ItemOf(inflight[d]) \in table

\* C17: a put whose put_item hits a storage fault calls put_item again at
\* least once before the error reaches the caller, so that a single fault
\* does not surface an error.
C17_WriteRetried ==
    \A c \in Callers :
        inflight[c].phase = "RuntimeError" => inflight[c].attempts >= 2

----------------------------------------------------------------------------
(* Claims about the WebSocket event client *)

\* C37: once close() has been called, whatever the listener threads do, the
\* client is not connected again unless connect() is called
C37_ClosedStaysClosed == closed => ~connected

\* C38: after a success, no more than max_reconnect_attempts reconnection
\* attempts fail in a row
C38_BoundedReconnection == failures <= max_reconnect_attempts

====
